---- MODULE Spec2Model ----
(***************************************************************************)
(* awesome-type-check: runtime type validation for JavaScript values.      *)
(* The model follows the latest revision of the library's index module     *)
(* (src/unnamed/part_009), its helpers (src/src/util.js) and its error     *)
(* class (src/unnamed/part_010).                                           *)
(*                                                                         *)
(* A JavaScript value is a record: t is what `typeof` gives, cls the class *)
(* an `instanceof` / Array.isArray / === null test sees, atom the printed  *)
(* form of a primitive, keys the own enumerable keys of an object in       *)
(* Object.keys order, items the property values (objects, by position of   *)
(* their key) or the elements (arrays).                                    *)
(***************************************************************************)
EXTENDS Integers, Sequences, FiniteSets, TLC

VARIABLES
  heap,     \* the options objects the caller has created, by reference
  schema,   \* the type description the caller holds
  given,    \* what the caller passed to the last ObjectType call
  value,    \* the value the caller validates
  errors,   \* what the last typeErrors call returned
  valid,    \* what the last isValid call returned
  op        \* the last operation

vars == <<heap, schema, given, value, errors, valid, op>>

-----------------------------------------------------------------------------
(* Bounds of the model *)

MaxTypeDepth == 2        \* constructor calls nested in a description
MaxRoutineDepth == 0     \* ... when it holds a custom routine
MaxDeepDepth == 4        \* ... in the specification of deep nesting, SpecDeep
MaxRequiredDepth == 0    \* nesting of a description handed to Required
MaxValueDepth == 1       \* literals nested in a value
MaxDeepValueDepth == 2   \* ... in SpecDeep
MaxItems == 2            \* elements of an array literal
MaxKeys == 2             \* keys of an object literal in SpecObject
MaxMessages == 2         \* messages in an array a custom routine returns
MaxKinds == 2            \* kind names in a string description or a schema object
MaxLength == 2           \* the largest minLength and maxLength of a StringType

-----------------------------------------------------------------------------
(* JavaScript values *)

Str(s) == [t |-> "string", cls |-> "", atom |-> s, keys |-> <<>>, items |-> <<>>]
Num(s) == [t |-> "number", cls |-> "", atom |-> s, keys |-> <<>>, items |-> <<>>]
Bool(s) == [t |-> "boolean", cls |-> "", atom |-> s, keys |-> <<>>, items |-> <<>>]
Null == [t |-> "object", cls |-> "null", atom |-> "null", keys |-> <<>>, items |-> <<>>]
Undef == [t |-> "undefined", cls |-> "", atom |-> "undefined", keys |-> <<>>, items |-> <<>>]
Arr(elems) == [t |-> "object", cls |-> "Array", atom |-> "", keys |-> <<>>, items |-> elems]
Obj(ks, vs) == [t |-> "object", cls |-> "Object", atom |-> "", keys |-> ks, items |-> vs]

\* value[key] for a key the object has
Prop(v, key) == v.items[CHOOSE i \in 1..Len(v.keys) : v.keys[i] = key]

\* `key in value` on a plain object
HasKey(v, key) == \E i \in 1..Len(v.keys) : v.keys[i] = key

-----------------------------------------------------------------------------
(* Strings: the String and Array methods the library calls *)

Char(s, i) == SubSeq(s, i, i)

EndsWith(s, suffix) ==
  /\ Len(s) >= Len(suffix)
  /\ SubSeq(s, Len(s) - Len(suffix) + 1, Len(s)) = suffix

Includes(s, sub) ==
  \E i \in 1..(Len(s) + 1) :
    /\ i + Len(sub) - 1 <= Len(s)
    /\ SubSeq(s, i, i + Len(sub) - 1) = sub

UpperChars == "ABCDEFGHIJKLMNOPQRSTUVWXYZ"
LowerChars == "abcdefghijklmnopqrstuvwxyz"

LowerTable ==
  [c \in {Char(UpperChars, i) : i \in 1..26} |->
     Char(LowerChars, CHOOSE i \in 1..26 : Char(UpperChars, i) = c)]

LowerChar(c) == IF c \in DOMAIN LowerTable THEN LowerTable[c] ELSE c

RECURSIVE ToLowerCase(_)
ToLowerCase(s) ==
  IF Len(s) = 0 THEN ""
  ELSE ToLowerCase(SubSeq(s, 1, Len(s) - 1)) \o LowerChar(Char(s, Len(s)))

\* strs.join(sep)
RECURSIVE Join(_, _)
Join(strs, sep) ==
  IF Len(strs) = 0 THEN ""
  ELSE IF Len(strs) = 1 THEN strs[1]
  ELSE Join(SubSeq(strs, 1, Len(strs) - 1), sep) \o sep \o strs[Len(strs)]

\* s.split(sep) for a one-character separator
RECURSIVE Split(_, _)
Split(s, sep) ==
  IF Len(s) = 0 THEN <<"">>
  ELSE LET front == Split(SubSeq(s, 1, Len(s) - 1), sep)
           c == Char(s, Len(s))
       IN IF c = sep THEN Append(front, "")
          ELSE [front EXCEPT ![Len(front)] = @ \o c]

-----------------------------------------------------------------------------
(* util.js *)

\* unique without the Set: duplicates kept
unique_KeepsDuplicates(s) == s

\* Array.from(new Set(array)): first occurrences, in order
RECURSIVE unique(_)
unique(s) ==
  IF Len(s) = 0 THEN <<>>
  ELSE LET front == unique(SubSeq(s, 1, Len(s) - 1))
           last == s[Len(s)]
       IN IF \E i \in 1..Len(front) : front[i] = last THEN front
          ELSE Append(front, last)

difference(array1, array2) ==
  SelectSeq(array1, LAMBDA v : ~ \E i \in 1..Len(array2) : array2[i] = v)

\* flatten(compact(lists)): undefined and empty entries dropped, the rest
\* concatenated one level deep
RECURSIVE flatten(_)
flatten(lists) ==
  IF Len(lists) = 0 THEN <<>>
  ELSE flatten(SubSeq(lists, 1, Len(lists) - 1)) \o lists[Len(lists)]

typeOf(v) ==
  IF v.t = "object" /\ v.cls = "null" THEN "null"
  ELSE IF v.t = "undefined" THEN "undefined"
  ELSE IF v.t = "number" /\ v.atom = "NaN" THEN "NaN"
  ELSE IF v.t = "number" /\ v.atom = "Infinity" THEN "Infinity"
  ELSE IF v.cls = "Array" THEN "array"
  ELSE IF v.cls = "Date" THEN "date"
  ELSE IF v.cls = "Error" THEN "error"
  ELSE IF v.cls = "RegExp" THEN "regexp"
  ELSE v.t

-----------------------------------------------------------------------------
(* RegExp: the patterns the model uses are ".*", "^lit", "lit$" and "lit"   *)
(* (a literal matches anywhere in the string).                             *)

StartsWith(s, prefix) ==
  /\ Len(s) >= Len(prefix)
  /\ SubSeq(s, 1, Len(prefix)) = prefix

\* str.match(new RegExp(pattern)) is not null
RegExpMatch(str, pattern) ==
  IF pattern = ".*" THEN TRUE
  ELSE IF StartsWith(pattern, "^") THEN StartsWith(str, SubSeq(pattern, 2, Len(pattern)))
  ELSE IF EndsWith(pattern, "$") THEN EndsWith(str, SubSeq(pattern, 1, Len(pattern) - 1))
  ELSE Includes(str, pattern)

-----------------------------------------------------------------------------
(* The error class, type_error: a TypeError is a record.  code "" and path *)
(* <<>> stand for an absent attribute (the constructor sets neither for a  *)
(* falsy code or an empty path).  The `type` attribute is not modelled.    *)

KeySeg(k) == [isIndex |-> FALSE, key |-> k, index |-> 0]
IdxSeg(i) == [isIndex |-> TRUE, key |-> "", index |-> i]

NoOptions == [code |-> "", path |-> <<>>]

TypeError(val, message, options) ==
  [message |-> message, value |-> val, code |-> options.code, path |-> options.path]

\* String(error) of an Error instance, as Array.prototype.toString prints it
ErrorToString(e) == IF e.message = "" THEN "Error" ELSE "Error: " \o e.message

-----------------------------------------------------------------------------
(* What a validation routine returns: undefined, true, false, null, one    *)
(* message or TypeError ("single"), or an array of them ("array").         *)

RUndefined == [shape |-> "undefined"]
RTrue == [shape |-> "true"]
RFalse == [shape |-> "false"]
RNull == [shape |-> "null"]
Msg(m) == [isError |-> FALSE, msg |-> m]
Err(e) == [isError |-> TRUE, err |-> e]
RSingle(item) == [shape |-> "single", item |-> item]
RArray(items) == [shape |-> "array", items |-> items]

\* the array of TypeErrors a built-in routine returns
RErrors(errs) == RArray([i \in 1..Len(errs) |-> Err(errs[i])])

\* what typeErrors returns: undefined, or an array of TypeErrors
Undefined == [defined |-> FALSE, errs |-> <<>>]
Errors(errs) == [defined |-> TRUE, errs |-> errs]

\* array(value) of util.js, on a routine result and on a typeErrors result
arrayOfResult(r) ==
  IF r.shape = "array" THEN r.items
  ELSE IF r.shape \in {"undefined", "null"} THEN <<>>
  ELSE IF r.shape = "single" THEN <<r.item>>
  ELSE <<r>>

array(res) == IF res.defined THEN res.errs ELSE <<>>

ItemToString(item) == IF item.isError THEN ErrorToString(item.err) ELSE item.msg

\* String(result) for a result that is a message or an array
ResultToString(r) ==
  IF r.shape = "single" THEN ItemToString(r.item)
  ELSE Join([i \in 1..Len(r.items) |-> ItemToString(r.items[i])], ",")

\* a custom routine: returns fn.result for the values whose kind is fn.when
\* (any value for "any") and undefined for the others
Apply(fn, val) ==
  IF fn.when = "any" \/ typeOf(val) = fn.when THEN fn.result ELSE RUndefined

-----------------------------------------------------------------------------
(* Type descriptions.  form is the kind typeOf gives for the description:  *)
(* "string" for 'number|null!', "array" for [description], "function" for  *)
(* a bare routine, "object" for a descriptor.  An attribute a descriptor   *)
(* lacks is an absent record field.                                        *)

JSON_TYPES == <<"array", "object", "string", "number", "boolean", "null">>

InSeq(x, s) == \E i \in 1..Len(s) : s[i] = x

StringForm(s) == [form |-> "string", str |-> s]
ArrayForm(d) == [form |-> "array", elems |-> <<d>>]
FunctionForm(fn) == [form |-> "function", fn |-> fn]

\* options a caller passes to a constructor; "" and "undefined" are absent
DefaultOptions ==
  [name |-> "", title |-> "", description |-> "", isRequired |-> "undefined"]

Attr(d, field, default) == IF field \in DOMAIN d THEN d[field] ELSE default

\* toString without the branch for a description that has only `type`
toString_WithoutKinds(type) ==
  LET baseType == IF Len(Attr(type, "type", <<>>)) > 0 THEN Join(type.type, "|") ELSE ""
      title == Attr(type, "title", "")
      name == Attr(type, "name", "")
  IN IF type.form = "string" THEN type.str
     ELSE IF title # "" THEN
       (IF baseType # "" /\ ~ Includes(ToLowerCase(title), baseType)
        THEN title \o " (" \o baseType \o ")" ELSE title)
     ELSE IF name # "" THEN
       (IF baseType # "" /\ ~ Includes(ToLowerCase(name), baseType)
        THEN name \o " (" \o baseType \o ")" ELSE name)
     ELSE "unnamed custom type"

toString(type) ==
  LET baseType == IF Len(Attr(type, "type", <<>>)) > 0 THEN Join(type.type, "|") ELSE ""
      title == Attr(type, "title", "")
      name == Attr(type, "name", "")
  IN IF type.form = "string" THEN type.str
     ELSE IF title # "" THEN
       (IF baseType # "" /\ ~ Includes(ToLowerCase(title), baseType)
        THEN title \o " (" \o baseType \o ")" ELSE title)
     ELSE IF name # "" THEN
       (IF baseType # "" /\ ~ Includes(ToLowerCase(name), baseType)
        THEN name \o " (" \o baseType \o ")" ELSE name)
     ELSE IF baseType # "" THEN baseType
     ELSE "unnamed custom type"

typeOfError(type, val, path) ==
  TypeError(val, "must be of type " \o toString(type) \o " but was " \o typeOf(val),
            [code |-> "typeof", path |-> path])

TypeOf(kinds, options) ==
  [form |-> "object", ctor |-> "TypeOf",
   type |-> IF \A i \in 1..Len(kinds) : InSeq(kinds[i], JSON_TYPES) THEN kinds ELSE <<>>,
   name |-> IF options.name # "" THEN options.name ELSE "TypeOf",
   title |-> IF options.title # "" THEN options.title ELSE Join(kinds, "|"),
   arg |-> kinds,
   options |-> options]

Validate(fn, options) ==
  [form |-> "object", ctor |-> "Validate",
   name |-> IF options.name # "" THEN options.name ELSE "Validate",
   title |-> IF options.title # "" THEN options.title
             ELSE IF fn.name # "" THEN fn.name ELSE "Validate",
   options |-> options,
   fn |-> fn]

StringType(options) ==
  [form |-> "object", ctor |-> "StringType",
   type |-> <<"string">>,
   name |-> IF options.name # "" THEN options.name ELSE "StringType",
   title |-> IF options.title # "" THEN options.title ELSE "StringType",
   options |-> options]

\* options.minimum and options.maximum are <<>> when absent, <<n>> when set
NumberOptions(minimum, maximum) ==
  [name |-> "", title |-> "", description |-> "", isRequired |-> "undefined",
   minimum |-> minimum, maximum |-> maximum]

NumberType(options) ==
  [form |-> "object", ctor |-> "NumberType",
   type |-> <<"number">>,
   name |-> IF options.name # "" THEN options.name ELSE "NumberType",
   title |-> IF options.title # "" THEN options.title ELSE "NumberType",
   options |-> options]

\* klass is a JavaScript value; the descriptor has no `type` attribute
InstanceOf(klass, options) ==
  [form |-> "object", ctor |-> "InstanceOf",
   name |-> IF options.name # "" THEN options.name ELSE "InstanceOf",
   title |-> IF options.title # "" THEN options.title ELSE "InstanceOf",
   arg |-> klass,
   options |-> options]

\* the options object an ObjectType call receives; it lives in the heap,
\* the constructor writes its `required` and the routine reads it later
ObjectOptions(required, additionalProperties, patternProperties) ==
  [name |-> "", title |-> "", description |-> "", isRequired |-> "undefined",
   required |-> required, additionalProperties |-> additionalProperties,
   patternProperties |-> patternProperties]

ArrayOptions(minItems, maxItems) ==
  [name |-> "", title |-> "", description |-> "", isRequired |-> "undefined",
   minItems |-> minItems, maxItems |-> maxItems]

StringOptions(minLength, maxLength, pattern) ==
  [name |-> "", title |-> "", description |-> "", isRequired |-> "undefined",
   minLength |-> minLength, maxLength |-> maxLength, pattern |-> pattern]

RECURSIVE typeObject(_)

ArrayType(items, options) ==
  [form |-> "object", ctor |-> "ArrayType",
   type |-> <<"array">>,
   name |-> IF options.name # "" THEN options.name ELSE "ArrayType",
   title |-> IF options.title # "" THEN options.title ELSE "ArrayType",
   items |-> typeObject(items),
   options |-> options]

\* typeObject reading the '!' without stripping it from the kind names
typeObject_KeepsBang(type) ==
  IF type.form = "string" THEN
    LET isRequired == EndsWith(type.str, "!")
        types == Split(type.str, "|")
    IN TypeOf(types, [DefaultOptions EXCEPT
                        !.isRequired = IF isRequired THEN "true" ELSE "false"])
  ELSE IF type.form = "array" THEN
    ArrayType(typeObject(type.elems[1]), ArrayOptions(-1, -1))
  ELSE IF type.form = "function" THEN Validate(type.fn, DefaultOptions)
  ELSE type

\* typeObject returning a renamed copy of a descriptor in place of the descriptor
typeObject_Copies(type) ==
  IF type.form = "string" THEN
    LET isRequired == EndsWith(type.str, "!")
        types == Split(IF isRequired THEN SubSeq(type.str, 1, Len(type.str) - 1)
                       ELSE type.str, "|")
    IN TypeOf(types, [DefaultOptions EXCEPT
                        !.isRequired = IF isRequired THEN "true" ELSE "false"])
  ELSE IF type.form = "array" THEN
    ArrayType(typeObject(type.elems[1]), ArrayOptions(-1, -1))
  ELSE IF type.form = "function" THEN Validate(type.fn, DefaultOptions)
  ELSE IF "name" \in DOMAIN type THEN [type EXCEPT !.name = "copy of " \o @]
  ELSE type

typeObject(type) ==
  IF type.form = "string" THEN
    LET isRequired == EndsWith(type.str, "!")
        types == Split(IF isRequired THEN SubSeq(type.str, 1, Len(type.str) - 1)
                       ELSE type.str, "|")
    IN TypeOf(types, [DefaultOptions EXCEPT
                        !.isRequired = IF isRequired THEN "true" ELSE "false"])
  ELSE IF type.form = "array" THEN
    ArrayType(typeObject(type.elems[1]), ArrayOptions(-1, -1))
  ELSE IF type.form = "function" THEN Validate(type.fn, DefaultOptions)
  ELSE type

Required(type) ==
  [typeObject(type) EXCEPT !.options.isRequired = "true"]

AllOf(types, options) ==
  [form |-> "object", ctor |-> "AllOf",
   name |-> IF options.name # "" THEN options.name ELSE "AllOf",
   title |-> IF options.title # "" THEN options.title ELSE "AllOf",
   arg |-> [i \in 1..Len(types) |-> typeObject(types[i])],
   options |-> options]

AnyOf(types, options) ==
  LET members == [i \in 1..Len(types) |-> typeObject(types[i])]
  IN [form |-> "object", ctor |-> "AnyOf",
      name |-> IF options.name # "" THEN options.name ELSE "AnyOf",
      title |-> IF options.title # "" THEN options.title ELSE "AnyOf",
      description |-> IF options.description # "" THEN options.description
                      ELSE "AnyOf(" \o Join([i \in 1..Len(members) |-> toString(members[i])], ", ") \o ")",
      arg |-> members,
      options |-> options]

\* a property list: the keys of the `properties` object in Object.keys order
Property(key, type) == [key |-> key, type |-> type]

\* ObjectType(properties, options) where options is the heap object ref:
\* the descriptor built, and the heap after the call
ObjectType(H, properties, ref) ==
  LET options == H[ref]
      props == [i \in 1..Len(properties) |->
                  Property(properties[i].key, typeObject(properties[i].type))]
      markedIdx == SelectSeq([i \in 1..Len(props) |-> i],
                             LAMBDA i : typeObject(props[i].type).options.isRequired = "true")
      keysMarkedRequired == [j \in 1..Len(markedIdx) |-> props[markedIdx[j]].key]
      required == unique(options.required \o keysMarkedRequired)
      newOptions == [options EXCEPT !.required = required]
  IN [heap |-> [H EXCEPT ![ref] = newOptions],
      type |-> [form |-> "object", ctor |-> "ObjectType",
                type |-> <<"object">>,
                name |-> IF options.name # "" THEN options.name ELSE "ObjectType",
                title |-> IF options.title # "" THEN options.title ELSE "ObjectType",
                properties |-> props,
                additionalProperties |-> options.additionalProperties,
                required |-> required,
                options |-> newOptions,
                ref |-> ref]]

\* merge(options, extra) makes a new object: ExactObject and ObjectOf hand
\* ObjectType a copy, appended to the heap
ExactObject(H, properties, options) ==
  ObjectType(Append(H, [options EXCEPT !.name = "ExactObject",
                                       !.additionalProperties = "false"]),
             properties, Len(H) + 1)

ObjectOf(H, valueType, options) ==
  ObjectType(Append(H, [options EXCEPT !.name = "ObjectOf",
                                       !.patternProperties = <<[pattern |-> ".*", type |-> valueType]>>]),
             <<>>, Len(H) + 1)

\* a nested literal: a plain object without validate, its entries in
\* Object.keys order
Literal(entries) == [form |-> "object", entries |-> entries]

RECURSIVE convertNested(_, _)
RECURSIVE convertEntries(_, _, _)

\* convertNested leaving the items of an array literal unconverted
convertNested_KeepsArrays(H, properties) ==
  IF properties.form = "object" /\ "ctor" \notin DOMAIN properties THEN
    LET ref == Len(H) + 1
        converted == convertEntries(Append(H, ObjectOptions(<<>>, "undefined", <<>>)),
                                    properties.entries, 1)
    IN ObjectType(converted.heap, converted.properties, ref)
  ELSE [heap |-> H, type |-> typeObject(properties)]

\* convertNested(properties) with the default options, a new object: the
\* descriptor, and the heap after the call (the default options object of
\* a call that makes no ObjectType is referenced nowhere and left out)
convertNested(H, properties) ==
  IF properties.form = "object" /\ "ctor" \notin DOMAIN properties THEN
    LET ref == Len(H) + 1
        converted == convertEntries(Append(H, ObjectOptions(<<>>, "undefined", <<>>)),
                                    properties.entries, 1)
    IN ObjectType(converted.heap, converted.properties, ref)
  ELSE IF properties.form = "array" THEN
    LET item == convertNested(H, properties.elems[1])
    IN [heap |-> item.heap, type |-> typeObject(ArrayForm(item.type))]
  ELSE [heap |-> H, type |-> typeObject(properties)]

\* mapObj(properties, (k, v) => convertNested(v)), from entry i on
convertEntries(H, entries, i) ==
  IF i > Len(entries) THEN [heap |-> H, properties |-> <<>>]
  ELSE LET first == convertNested(H, entries[i].type)
           rest == convertEntries(first.heap, entries, i + 1)
       IN [heap |-> rest.heap,
           properties |-> <<Property(entries[i].key, first.type)>> \o rest.properties]

NestedObject(H, properties) == convertNested(H, properties)

-----------------------------------------------------------------------------
(* The validation routines and the driver.  H is the heap of options       *)
(* objects the ObjectType routines read.                                   *)

HasValidate(type) == "ctor" \in DOMAIN type

\* the TypeOf routine without the clause for 'any'
validateTypeOf_WithoutAny(type, val) ==
  IF ~ InSeq(typeOf(val), type.arg)
  THEN RErrors(<<typeOfError(type, val, <<>>)>>)
  ELSE RUndefined

validateTypeOf(type, val) ==
  IF ~ InSeq(typeOf(val), type.arg) /\ ~ InSeq("any", type.arg)
  THEN RErrors(<<typeOfError(type, val, <<>>)>>)
  ELSE RUndefined

\* the StringType routine returning at the first violated constraint
validateStringType_FirstOnly(type, val) ==
  IF typeOf(val) # "string" THEN RErrors(<<typeOfError(type, val, <<>>)>>)
  ELSE
    LET options == type.options
        length == Len(val.atom)
    IN IF options.minLength # -1 /\ length < options.minLength
       THEN RErrors(<<TypeError(val, "must have at least " \o ToString(options.minLength)
                                     \o " characters but had only " \o ToString(length),
                                [code |-> "minLength", path |-> <<>>])>>)
       ELSE IF options.maxLength # -1 /\ length > options.maxLength
       THEN RErrors(<<TypeError(val, "must have at most " \o ToString(options.maxLength)
                                     \o " characters but had " \o ToString(length),
                                [code |-> "maxLength", path |-> <<>>])>>)
       ELSE IF options.pattern # "" /\ ~ RegExpMatch(val.atom, options.pattern)
       THEN RErrors(<<TypeError(val, "must match pattern " \o options.pattern,
                                [code |-> "pattern", path |-> <<>>])>>)
       ELSE RUndefined

validateStringType(type, val) ==
  IF typeOf(val) # "string" THEN RErrors(<<typeOfError(type, val, <<>>)>>)
  ELSE
    LET options == type.options
        length == Len(val.atom)
        minLength ==
          IF options.minLength # -1 /\ length < options.minLength
          THEN <<TypeError(val, "must have at least " \o ToString(options.minLength)
                                \o " characters but had only " \o ToString(length),
                           [code |-> "minLength", path |-> <<>>])>>
          ELSE <<>>
        maxLength ==
          IF options.maxLength # -1 /\ length > options.maxLength
          THEN <<TypeError(val, "must have at most " \o ToString(options.maxLength)
                                \o " characters but had " \o ToString(length),
                           [code |-> "maxLength", path |-> <<>>])>>
          ELSE <<>>
        pattern ==
          IF options.pattern # "" /\ ~ RegExpMatch(val.atom, options.pattern)
          THEN <<TypeError(val, "must match pattern " \o options.pattern,
                           [code |-> "pattern", path |-> <<>>])>>
          ELSE <<>>
        errs == minLength \o maxLength \o pattern
    IN IF Len(errs) > 0 THEN RErrors(errs) ELSE RUndefined

\* the number a numeric literal of the model stands for; -Infinity is below
\* and Infinity above every bound
NumberOf(atom) ==
  CASE atom = "-1" -> -1 [] atom = "0" -> 0 [] atom = "1" -> 1 [] atom = "2" -> 2
    [] atom = "3" -> 3 [] atom = "4" -> 4

LessThan(val, n) ==
  IF val.atom = "-Infinity" THEN TRUE
  ELSE IF val.atom = "Infinity" THEN FALSE ELSE NumberOf(val.atom) < n

GreaterThan(val, n) ==
  IF val.atom = "Infinity" THEN TRUE
  ELSE IF val.atom = "-Infinity" THEN FALSE ELSE NumberOf(val.atom) > n

validateNumberType(type, val) ==
  IF typeOf(val) # "number" THEN RErrors(<<typeOfError(type, val, <<>>)>>)
  ELSE
    LET options == type.options
        minimum ==
          IF options.minimum # <<>> /\ LessThan(val, options.minimum[1])
          THEN <<TypeError(val, "must be at least " \o ToString(options.minimum[1])
                                \o " was only " \o val.atom,
                           [code |-> "minimum", path |-> <<>>])>>
          ELSE <<>>
        maximum ==
          IF options.maximum # <<>> /\ GreaterThan(val, options.maximum[1])
          THEN <<TypeError(val, "must be no more than " \o ToString(options.maximum[1])
                                \o " but was " \o val.atom,
                           [code |-> "maximum", path |-> <<>>])>>
          ELSE <<>>
        errs == minimum \o maximum
    IN IF Len(errs) > 0 THEN RErrors(errs) ELSE RUndefined

\* value instanceof klass, for a klass that is a function: the built-in
\* classes are named after the class of the values they make
IsInstanceOf(val, klass) ==
  /\ val.t \in {"object", "function"}
  /\ val.cls # "null"
  /\ klass.atom \in {val.cls, "Object"}

klassName(klass) == IF klass.t = "function" THEN klass.atom ELSE Prop(klass, "name").atom

validateInstanceOf(type, val) ==
  IF ~ IsInstanceOf(val, type.arg)
  THEN RSingle(Err(TypeError(val, "must be instanceof " \o klassName(type.arg),
                             [code |-> "instanceof", path |-> <<>>])))
  ELSE RUndefined

RECURSIVE typeErrors(_, _, _, _)
RECURSIVE validate(_, _, _, _)

validateObjectType(H, type, val, path) ==
  IF typeOf(val) # "object" THEN RErrors(<<typeOfError(type, val, path)>>)
  ELSE
    LET options == H[type.ref]
        properties == type.properties
        missingKeys == difference(options.required, val.keys)
        requiredErrors ==
          IF Len(options.required) > 0 /\ Len(missingKeys) > 0
          THEN <<TypeError(val, "is missing the following required keys: "
                                \o Join(missingKeys, ", "),
                           [code |-> "required", path |-> path])>>
          ELSE <<>>
        keyErrors ==
          flatten([i \in 1..Len(properties) |->
                     IF HasKey(val, properties[i].key)
                     THEN array(typeErrors(H, properties[i].type,
                                           Prop(val, properties[i].key),
                                           Append(path, KeySeg(properties[i].key))))
                     ELSE <<>>])
        patterns == options.patternProperties
        Matching(key) == SelectSeq(patterns, LAMBDA p : RegExpMatch(key, p.pattern))
        patternErrors ==
          flatten([i \in 1..Len(val.keys) |->
                     IF Len(Matching(val.keys[i])) > 0 /\ Matching(val.keys[i])[1].pattern # ""
                     THEN array(typeErrors(H, Matching(val.keys[i])[1].type,
                                           val.items[i],
                                           Append(path, KeySeg(val.keys[i]))))
                     ELSE <<>>])
        recognizedKeys == [i \in 1..Len(properties) |-> properties[i].key]
        invalidKeys == difference(val.keys, recognizedKeys)
        additionalErrors ==
          IF options.additionalProperties = "false" /\ Len(invalidKeys) > 0
          THEN <<TypeError(val, "has the following invalid keys: "
                                \o Join(invalidKeys, ", "),
                           [code |-> "additionalProperties", path |-> path])>>
          ELSE <<>>
        errs == requiredErrors \o keyErrors \o patternErrors \o additionalErrors
    IN IF Len(errs) > 0 THEN RErrors(errs) ELSE RUndefined

validateArrayType(H, type, val, path) ==
  IF val.cls # "Array" THEN RErrors(<<typeOfError(type, val, path)>>)
  ELSE
    LET options == type.options
        length == Len(val.items)
        itemErrors ==
          flatten([i \in 1..length |->
                     array(typeErrors(H, type.items, val.items[i],
                                      Append(path, IdxSeg(i - 1))))])
        minItems ==
          IF options.minItems \notin {-1, 0} /\ length < options.minItems
          THEN <<TypeError(val, "must have at least " \o ToString(options.minItems)
                                \o " items but had only " \o ToString(length),
                           [code |-> "minItems", path |-> path])>>
          ELSE <<>>
        maxItems ==
          IF options.maxItems \notin {-1, 0} /\ length > options.maxItems
          THEN <<TypeError(val, "must have no more than " \o ToString(options.maxItems)
                                \o " items but had " \o ToString(length),
                           [code |-> "maxItems", path |-> path])>>
          ELSE <<>>
        errs == itemErrors \o minItems \o maxItems
    IN IF Len(errs) > 0 THEN RErrors(errs) ELSE RUndefined

\* the loop of AllOf: the first member whose typeErrors is not undefined
RECURSIVE AllOfLoop(_, _, _, _)
AllOfLoop(H, types, val, i) ==
  IF i > Len(types) THEN RUndefined
  ELSE LET errs == typeErrors(H, types[i], val, <<>>)
       IN IF errs.defined THEN RErrors(errs.errs)
          ELSE AllOfLoop(H, types, val, i + 1)

\* AllOf without the early return: the errors of every member
validateAllOf_CollectsAll(H, type, val) ==
  LET all == flatten([i \in 1..Len(type.arg) |->
                        array(typeErrors(H, type.arg[i], val, <<>>))])
  IN IF Len(all) > 0 THEN RErrors(all) ELSE RUndefined

validateAllOf(H, type, val) == AllOfLoop(H, type.arg, val, 1)

\* AnyOf with every in place of find: all members must match
validateAnyOf_NeedsEvery(H, type, val) ==
  IF \A i \in 1..Len(type.arg) : ~ typeErrors(H, type.arg[i], val, <<>>).defined
  THEN RUndefined
  ELSE RSingle(Err(TypeError(val, "must be of type " \o type.description, NoOptions)))

validateAnyOf(H, type, val) ==
  IF \E i \in 1..Len(type.arg) : ~ typeErrors(H, type.arg[i], val, <<>>).defined
  THEN RUndefined
  ELSE RSingle(Err(TypeError(val, "must be of type " \o type.description, NoOptions)))

validate(H, type, val, path) ==
  CASE type.ctor = "TypeOf" -> validateTypeOf(type, val)
    [] type.ctor = "Validate" -> Apply(type.fn, val)
    [] type.ctor = "StringType" -> validateStringType(type, val)
    [] type.ctor = "NumberType" -> validateNumberType(type, val)
    [] type.ctor = "InstanceOf" -> validateInstanceOf(type, val)
    [] type.ctor = "ObjectType" -> validateObjectType(H, type, val, path)
    [] type.ctor = "ArrayType" -> validateArrayType(H, type, val, path)
    [] type.ctor = "AllOf" -> validateAllOf(H, type, val)
    [] type.ctor = "AnyOf" -> validateAnyOf(H, type, val)

typeErrors(H, type, val, path) ==
  LET _typeObject == typeObject(type)
      kinds == Attr(_typeObject, "type", <<>>)
  IN IF Len(kinds) > 0
        /\ ~ \E i \in 1..Len(kinds) : typeOf(val) = kinds[i] \/ kinds[i] = "any"
     THEN Errors(<<typeOfError(_typeObject, val, path)>>)
     ELSE IF ~ HasValidate(_typeObject) THEN Undefined
     ELSE
       LET result == validate(H, _typeObject, val, path)
           items == arrayOfResult(result)
       IN IF result.shape \in {"true", "undefined"} THEN Undefined
          ELSE IF result.shape = "false"
            THEN Errors(<<TypeError(val, "is invalid", [code |-> "", path |-> path])>>)
          ELSE Errors([i \in 1..Len(items) |->
                 IF items[i].isError
                 THEN [items[i].err EXCEPT !.path = IF @ # <<>> THEN @ ELSE path]
                 ELSE TypeError(val, ResultToString(result),
                                [code |-> "", path |-> path])])

\* isValid testing for "no errors in the list" in place of "undefined"
isValid_EmptyIsValid(H, type, val) ==
  Len(array(typeErrors(H, type, val, <<>>))) = 0

isValid(H, type, val) ==
  LET errs == typeErrors(H, type, val, <<>>)
  IN IF errs = Undefined THEN TRUE ELSE FALSE

-----------------------------------------------------------------------------
(* Construction-time checks.  The argument and the options object of a     *)
(* constructor are JavaScript values; a check gives the message of the     *)
(* Error it throws, "" when it throws nothing.                             *)

\* a function or class value; atom is its name
Fn(name) == [t |-> "function", cls |-> "Function", atom |-> name, keys |-> <<>>, items |-> <<>>]

nil(v) == typeOf(v) \in {"null", "undefined"}

empty(v) ==
  IF nil(v) THEN TRUE
  ELSE IF v.cls = "Array" THEN Len(v.items) = 0
  ELSE IF v.t = "string" THEN Len(v.atom) = 0
  ELSE IF v.t = "object" THEN Len(v.keys) = 0
  ELSE FALSE

\* Object.assign({}, object1, object2)
merge(object1, object2) ==
  LET fresh == SelectSeq(object2.keys, LAMBDA k : ~ HasKey(object1, k))
      keys == object1.keys \o fresh
  IN Obj(keys, [i \in 1..Len(keys) |->
                  IF HasKey(object2, keys[i]) THEN Prop(object2, keys[i])
                  ELSE Prop(object1, keys[i])])

\* the loop of assertValidOptions from the i-th key of options on
RECURSIVE assertValidOptionsFrom(_, _, _)
assertValidOptionsFrom(options, validOptionTypes, i) ==
  IF i > Len(options.keys) THEN ""
  ELSE
    LET key == options.keys[i]
        actualType == typeOf(options.items[i])
        known == HasKey(validOptionTypes, key)
        declared == IF known THEN Prop(validOptionTypes, key) ELSE Undef
        expectedType == IF typeOf(declared) = "array" THEN "array" ELSE declared.atom
        badItems == IF expectedType = "array" /\ actualType = "array"
                    THEN {j \in 1..Len(options.items[i].items) :
                            typeOf(options.items[i].items[j]) # declared.items[1].atom}
                    ELSE {}
    IN IF ~ known
       THEN "Unrecognized options key " \o key \o ", should be one of "
              \o Join(validOptionTypes.keys, ", ")
       ELSE IF actualType # expectedType
       THEN "Type of options key " \o key \o " is " \o actualType
              \o " but needs to be " \o expectedType
       ELSE IF badItems # {}
       THEN LET j == CHOOSE j \in badItems : \A k \in badItems : j <= k
            IN "Item type for options key " \o key \o " at index " \o ToString(j - 1)
                 \o " is " \o typeOf(options.items[i].items[j])
                 \o " but needs to be " \o declared.items[1].atom
       ELSE assertValidOptionsFrom(options, validOptionTypes, i + 1)

assertValidOptions(options, validOptionTypes) ==
  IF nil(options) THEN ""
  ELSE assertValidOptionsFrom(options, validOptionTypes, 1)

SHARED_OPTIONS ==
  Obj(<<"name", "title", "description", "isRequired">>,
      <<Str("string"), Str("string"), Str("string"), Str("boolean")>>)

assertTypeOptions(options, validOptionTypes) ==
  assertValidOptions(options, merge(validOptionTypes, SHARED_OPTIONS))

\* the first of two statements that throws
Then(first, second) == IF first # "" THEN first ELSE second

\* a default parameter: options = {}
Default(argument, default) == IF typeOf(argument) = "undefined" THEN default ELSE argument

NoValidOptions == Obj(<<>>, <<>>)

\* TypeOf without the test for an empty argument
TypeOfThrows_AcceptsEmpty(type, options) ==
  IF typeOf(type) \notin {"string", "array"}
  THEN "TypeOf expects a non-empty string or array as first argument"
  ELSE assertTypeOptions(Default(options, Obj(<<>>, <<>>)), NoValidOptions)

TypeOfThrows(type, options) ==
  IF typeOf(type) \notin {"string", "array"} \/ empty(type)
  THEN "TypeOf expects a non-empty string or array as first argument"
  ELSE assertTypeOptions(Default(options, Obj(<<>>, <<>>)), NoValidOptions)

\* a type description written as a JavaScript value
RECURSIVE DescriptionOf(_)
DescriptionOf(v) ==
  IF typeOf(v) = "string" THEN StringForm(v.atom)
  ELSE IF typeOf(v) = "array"
    THEN ArrayForm(IF Len(v.items) > 0 THEN DescriptionOf(v.items[1]) ELSE StringForm("any"))
  ELSE IF typeOf(v) = "function" THEN FunctionForm([name |-> v.atom, when |-> "", result |-> RUndefined])
  ELSE [form |-> typeOf(v)]

\* what typeObject throws: TypeOf rejects the empty kind name of '' and '!'
RECURSIVE typeObjectThrows(_)
typeObjectThrows(type) ==
  IF type.form = "string" THEN
    LET isRequired == EndsWith(type.str, "!")
        types == Split(IF isRequired THEN SubSeq(type.str, 1, Len(type.str) - 1)
                       ELSE type.str, "|")
        arg == IF Len(types) = 1 THEN Str(types[1])
               ELSE Arr([i \in 1..Len(types) |-> Str(types[i])])
    IN TypeOfThrows(arg, Obj(<<"isRequired">>,
                             <<Bool(IF isRequired THEN "true" ELSE "false")>>))
  ELSE IF type.form = "array" THEN typeObjectThrows(type.elems[1])
  ELSE ""

\* types.map(typeObject), properties mapped with typeObject: the first throw
RECURSIVE typeObjectAllThrows(_, _)
typeObjectAllThrows(descriptions, i) ==
  IF i > Len(descriptions) THEN ""
  ELSE Then(typeObjectThrows(DescriptionOf(descriptions[i])),
            typeObjectAllThrows(descriptions, i + 1))

StringTypeThrows(options) ==
  assertTypeOptions(Default(options, Obj(<<>>, <<>>)),
                    Obj(<<"minLength", "maxLength", "pattern">>,
                        <<Str("number"), Str("number"), Str("string")>>))

NumberTypeThrows(options) ==
  assertTypeOptions(Default(options, Obj(<<>>, <<>>)),
                    Obj(<<"minimum", "maximum">>, <<Str("number"), Str("number")>>))

BoolTypeThrows(options) ==
  TypeOfThrows(Str("boolean"),
               merge(Default(options, Obj(<<>>, <<>>)), Obj(<<"name">>, <<Str("BoolType")>>)))

NullTypeThrows(options) ==
  TypeOfThrows(Str("null"),
               merge(Default(options, Obj(<<>>, <<>>)), Obj(<<"name">>, <<Str("NullType")>>)))

EnumThrows(values, options) ==
  IF typeOf(values) # "array" \/ Len(values.items) = 0
  THEN "Enum expects a non empty array of values as first argument"
  ELSE assertTypeOptions(Default(options, Obj(<<>>, <<>>)), NoValidOptions)

\* klass.name is truthy: a named function, or an object with a name
HasName(klass) ==
  IF klass.t = "function" THEN klass.atom # ""
  ELSE /\ klass.cls = "Object" /\ HasKey(klass, "name")
       /\ ~ empty(Prop(klass, "name"))

InstanceOfThrows(klass, options) ==
  IF empty(klass) \/ ~ HasName(klass)
  THEN "InstanceOf expects a class as first argument"
  ELSE assertTypeOptions(Default(options, Obj(<<>>, <<>>)), NoValidOptions)

ValidateThrows(fn, options) ==
  IF typeOf(fn) # "function"
  THEN "Validate expects a validation function as its first argument"
  ELSE ""

ObjectTypeThrows(properties, options) ==
  IF typeOf(properties) # "object"
  THEN "ObjectType expects properties object as its first argument"
  ELSE Then(assertTypeOptions(Default(options, Obj(<<>>, <<>>)),
                              Obj(<<"title", "required", "additionalProperties", "patternProperties">>,
                                  <<Str("string"), Arr(<<Str("string")>>), Str("boolean"), Str("object")>>)),
            typeObjectAllThrows(properties.items, 1))

ExactObjectThrows(properties, options) ==
  ObjectTypeThrows(properties,
                   merge(Default(options, Obj(<<>>, <<>>)),
                         Obj(<<"name", "additionalProperties">>,
                             <<Str("ExactObject"), Bool("false")>>)))

ObjectOfThrows(valueType, options) ==
  ObjectTypeThrows(Obj(<<>>, <<>>),
                   merge(Default(options, Obj(<<>>, <<>>)),
                         Obj(<<"name", "patternProperties">>,
                             <<Str("ObjectOf"), Obj(<<".*">>, <<valueType>>)>>)))

ArrayTypeThrows(items, options) ==
  Then(typeObjectThrows(DescriptionOf(Default(items, Str("any")))),
       assertTypeOptions(Default(options, Obj(<<>>, <<>>)),
                         Obj(<<"minItems", "maxItems">>, <<Str("number"), Str("number")>>)))

AllOfThrows(types, options) ==
  IF typeOf(types) # "array" \/ empty(types)
  THEN "AllOf expects non-empty array as its first argument"
  ELSE typeObjectAllThrows(types.items, 1)

AnyOfThrows(types, options) ==
  IF typeOf(types) # "array" \/ empty(types)
  THEN "AnyOf expects non-empty array as its first argument"
  ELSE typeObjectAllThrows(types.items, 1)

-----------------------------------------------------------------------------
(* The caller: builds a type description bottom-up with the constructors,  *)
(* builds a value, and validates the value against the description.        *)

Max(a, b) == IF a >= b THEN a ELSE b

RECURSIVE MaxOf(_)
MaxOf(s) ==
  IF Len(s) = 0 THEN 0 ELSE Max(s[Len(s)], MaxOf(SubSeq(s, 1, Len(s) - 1)))

\* nesting depth of a description and of a value
RECURSIVE TypeDepth(_)
TypeDepth(type) ==
  IF type.form # "object" \/ ~ HasValidate(type) THEN 0
  ELSE IF type.ctor = "ObjectType"
    THEN 1 + MaxOf([i \in 1..Len(type.properties) |-> TypeDepth(type.properties[i].type)])
  ELSE IF type.ctor = "ArrayType" THEN 1 + TypeDepth(type.items)
  ELSE IF type.ctor \in {"AllOf", "AnyOf"} THEN 1 + MaxOf([i \in 1..Len(type.arg) |-> TypeDepth(type.arg[i])])
  ELSE 0

RECURSIVE ValueDepth(_)
ValueDepth(v) ==
  IF v.cls \in {"Object", "Array"} /\ Len(v.items) > 0
  THEN 1 + MaxOf([i \in 1..Len(v.items) |-> ValueDepth(v.items[i])]) ELSE 0

\* the custom routines of the model: fail on numbers with the given result,
\* accept everything else
Routine(result) == [name |-> "fn", when |-> "number", result |-> result]

Messages == <<"m1", "m2", "m3">>

RoutineResults ==
  {RUndefined, RTrue, RFalse, RNull, RSingle(Msg("m1"))}
    \cup {RArray([i \in 1..n |-> Msg(Messages[i])]) : n \in 0..MaxMessages}

RoutineTypes == {FunctionForm(Routine(r)) : r \in RoutineResults}

RECURSIVE HasRoutine(_)
HasRoutine(type) ==
  IF type.form = "function" THEN TRUE
  ELSE IF type.form # "object" \/ ~ HasValidate(type) THEN FALSE
  ELSE IF type.ctor = "Validate" THEN TRUE
  ELSE IF type.ctor = "ObjectType"
    THEN \E i \in 1..Len(type.properties) : HasRoutine(type.properties[i].type)
  ELSE IF type.ctor = "ArrayType" THEN HasRoutine(type.items)
  ELSE IF type.ctor \in {"AllOf", "AnyOf"}
    THEN \E i \in 1..Len(type.arg) : HasRoutine(type.arg[i])
  ELSE FALSE

MayNest(type, limit) ==
  TypeDepth(type) < (IF HasRoutine(type) THEN MaxRoutineDepth ELSE limit)

Username == StringType(StringOptions(2, -1, "^a"))

LeafTypes == {StringForm("string"), Username}

LeafValues == {Str("s"), Num("1"), Obj(<<>>, <<>>)}

NoCall == [required |-> <<>>, properties |-> <<>>, returned |-> <<>>]

Init ==
  /\ heap = <<>>
  /\ schema \in LeafTypes \cup RoutineTypes
  /\ given = NoCall
  /\ value \in LeafValues
  /\ errors = Undefined
  /\ valid = FALSE
  /\ op = "init"

\* ObjectType(properties, {required}) with a new options literal
CallObjectType(properties, required, limit) ==
  /\ MayNest(schema, limit)
  /\ LET H == Append(heap, ObjectOptions(required, "undefined", <<>>))
         built == ObjectType(H, properties, Len(H))
     IN /\ heap' = built.heap
        /\ schema' = built.type
        /\ given' = [required |-> required, properties |-> properties,
                     returned |-> <<built.type>>]
  /\ op' = "build"
  /\ errors' = Undefined
  /\ valid' = FALSE
  /\ UNCHANGED value

CallArrayType(limit) ==
  /\ MayNest(schema, limit)
  /\ schema' = ArrayType(schema, ArrayOptions(-1, -1))
  /\ op' = "build"
  /\ errors' = Undefined
  /\ valid' = FALSE
  /\ UNCHANGED <<heap, given, value>>

CallAllOf(types, limit) ==
  /\ MayNest(schema, limit)
  /\ schema' = AllOf(types, DefaultOptions)
  /\ op' = "build"
  /\ errors' = Undefined
  /\ valid' = FALSE
  /\ UNCHANGED <<heap, given, value>>

CallAnyOf(types, limit) ==
  /\ MayNest(schema, limit)
  /\ schema' = AnyOf(types, DefaultOptions)
  /\ op' = "build"
  /\ errors' = Undefined
  /\ valid' = FALSE
  /\ UNCHANGED <<heap, given, value>>

CallRequired ==
  /\ TypeDepth(schema) <= MaxRequiredDepth
  /\ schema' = Required(schema)
  /\ schema' # schema
  /\ op' = "build"
  /\ errors' = Undefined
  /\ valid' = FALSE
  /\ UNCHANGED <<heap, given, value>>

\* the caller nests the value in an object literal {a: value} ...
MakeObject(limit) ==
  /\ ValueDepth(value) < limit
  /\ value' = Obj(<<"a">>, <<value>>)
  /\ op' = "build"
  /\ errors' = Undefined
  /\ valid' = FALSE
  /\ UNCHANGED <<heap, schema, given>>

\* ... gives the object a second key b ...
SetKey(leaf) ==
  /\ value.cls = "Object"
  /\ ~ HasKey(value, "b")
  /\ value' = Obj(Append(value.keys, "b"), Append(value.items, leaf))
  /\ op' = "build"
  /\ errors' = Undefined
  /\ valid' = FALSE
  /\ UNCHANGED <<heap, schema, given>>

\* ... nests it in an array literal [value] ...
MakeArray(limit) ==
  /\ ValueDepth(value) < limit
  /\ value' = Arr(<<value>>)
  /\ op' = "build"
  /\ errors' = Undefined
  /\ valid' = FALSE
  /\ UNCHANGED <<heap, schema, given>>

\* ... or adds an element to the array
Push(leaf) ==
  /\ value.cls = "Array"
  /\ Len(value.items) < MaxItems
  /\ value' = Arr(Append(value.items, leaf))
  /\ op' = "build"
  /\ errors' = Undefined
  /\ valid' = FALSE
  /\ UNCHANGED <<heap, schema, given>>

CallTypeErrors ==
  /\ op \in {"init", "build"}
  /\ errors' = typeErrors(heap, schema, value, <<>>)
  /\ op' = "typeErrors"
  /\ UNCHANGED <<heap, schema, given, value, valid>>

CallIsValid ==
  /\ op = "typeErrors"
  /\ valid' = isValid(heap, schema, value)
  /\ op' = "isValid"
  /\ UNCHANGED <<heap, schema, given, value, errors>>

\* the properties and options of the ObjectType calls of the model
UserProperties(type) ==
  <<Property("a", type), Property("b", StringForm("string!"))>>

Next ==
  \/ CallObjectType(UserProperties(schema), <<"b">>, MaxTypeDepth)
  \/ CallArrayType(MaxTypeDepth)
  \/ CallAllOf(<<schema, Username>>, MaxTypeDepth)
  \/ CallAnyOf(<<schema, StringForm("number!")>>, MaxTypeDepth)
  \/ CallRequired
  \/ MakeObject(MaxValueDepth)
  \/ \E leaf \in {Str("s"), Num("1")} : SetKey(leaf)
  \/ MakeArray(MaxValueDepth)
  \/ Push(Num("1"))
  \/ CallTypeErrors
  \/ CallIsValid

Spec == Init /\ [][Next]_vars

\* deep nesting: ObjectType, ArrayType and AllOf only, nested further
InitDeep ==
  /\ heap = <<>>
  /\ schema = StringForm("string")
  /\ given = NoCall
  /\ value \in LeafValues
  /\ errors = Undefined
  /\ valid = FALSE
  /\ op = "init"

NextDeep ==
  \/ CallObjectType(UserProperties(schema), <<"b">>, MaxDeepDepth)
  \/ CallArrayType(MaxDeepDepth)
  \/ CallAllOf(<<schema, Username>>, MaxDeepDepth)
  \/ MakeObject(MaxDeepValueDepth)
  \/ \E leaf \in {Str("s"), Num("1")} : SetKey(leaf)
  \/ MakeArray(MaxDeepValueDepth)
  \/ Push(Num("1"))
  \/ CallTypeErrors
  \/ CallIsValid

SpecDeep == InitDeep /\ [][NextDeep]_vars

-----------------------------------------------------------------------------
(* Objects with patternProperties and additionalProperties: one            *)
(* constructor call, then a value with keys among a, ab and b.             *)

Pattern(pattern, type) == [pattern |-> pattern, type |-> type]

\* the patternProperties objects of the model, in Object.keys order
PatternSets ==
  {<<>>,
   <<Pattern(".*", StringForm("number"))>>,
   <<Pattern("^a", StringForm("number")), Pattern("b$", StringForm("string"))>>}

PropertySets ==
  {<<>>,
   <<Property("a", StringForm("string"))>>,
   <<Property("a", StringForm("string")), Property("b", FunctionForm(Routine(RArray(<<>>))))>>}

\* the value types handed to ObjectOf
ValueTypes ==
  {StringForm("number"), Username, FunctionForm(Routine(RArray(<<>>))),
   FunctionForm(Routine(RSingle(Msg("m1"))))}

InitObject ==
  /\ heap = <<>>
  /\ schema = StringForm("object")
  /\ given = NoCall
  /\ value \in {Obj(<<>>, <<>>), Num("1")}
  /\ errors = Undefined
  /\ valid = FALSE
  /\ op = "init"

\* ObjectType(properties, {additionalProperties, patternProperties})
CallObjectTypeOptions(properties, additionalProperties, patternProperties) ==
  /\ op = "init"
  /\ LET H == Append(heap, ObjectOptions(<<>>, additionalProperties, patternProperties))
         built == ObjectType(H, properties, Len(H))
     IN /\ heap' = built.heap
        /\ schema' = built.type
        /\ given' = [required |-> <<>>, properties |-> properties,
                     returned |-> <<built.type>>]
  /\ op' = "build"
  /\ UNCHANGED <<value, errors, valid>>

CallExactObject(properties) ==
  /\ op = "init"
  /\ LET built == ExactObject(heap, properties, ObjectOptions(<<>>, "undefined", <<>>))
     IN /\ heap' = built.heap
        /\ schema' = built.type
        /\ given' = [required |-> <<>>, properties |-> properties,
                     returned |-> <<built.type>>]
  /\ op' = "build"
  /\ UNCHANGED <<value, errors, valid>>

CallObjectOf(valueType) ==
  /\ op = "init"
  /\ LET built == ObjectOf(heap, valueType, ObjectOptions(<<>>, "undefined", <<>>))
     IN /\ heap' = built.heap
        /\ schema' = built.type
        /\ given' = [required |-> <<>>, properties |-> <<>>,
                     returned |-> <<built.type>>, valueType |-> <<valueType>>]
  /\ op' = "build"
  /\ UNCHANGED <<value, errors, valid>>

\* the caller gives the object literal one more key
AddKey(key, leaf) ==
  /\ op = "build"
  /\ value.cls = "Object"
  /\ Len(value.keys) < MaxKeys
  /\ ~ HasKey(value, key)
  /\ value' = Obj(Append(value.keys, key), Append(value.items, leaf))
  /\ UNCHANGED <<heap, schema, given, errors, valid, op>>

NextObject ==
  \/ \E properties \in PropertySets, patternProperties \in PatternSets,
        additionalProperties \in {"undefined", "false", "true"} :
          CallObjectTypeOptions(properties, additionalProperties, patternProperties)
  \/ \E properties \in PropertySets : CallExactObject(properties)
  \/ \E valueType \in ValueTypes : CallObjectOf(valueType)
  \/ \E key \in {"a", "ab", "b"}, leaf \in {Str("s"), Num("1")} : AddKey(key, leaf)
  \/ CallTypeErrors
  \/ CallIsValid

SpecObject == InitObject /\ [][NextObject]_vars

-----------------------------------------------------------------------------
(* Constructor calls with usable and unusable first arguments and with     *)
(* recognized and unrecognized options.                                    *)

\* what a constructor call throws
Throws(ctor, arg, options) ==
  CASE ctor = "StringType" -> StringTypeThrows(options)
    [] ctor = "NumberType" -> NumberTypeThrows(options)
    [] ctor = "BoolType" -> BoolTypeThrows(options)
    [] ctor = "NullType" -> NullTypeThrows(options)
    [] ctor = "TypeOf" -> TypeOfThrows(arg, options)
    [] ctor = "Enum" -> EnumThrows(arg, options)
    [] ctor = "InstanceOf" -> InstanceOfThrows(arg, options)
    [] ctor = "Validate" -> ValidateThrows(arg, options)
    [] ctor = "ObjectType" -> ObjectTypeThrows(arg, options)
    [] ctor = "ExactObject" -> ExactObjectThrows(arg, options)
    [] ctor = "ObjectOf" -> ObjectOfThrows(arg, options)
    [] ctor = "ArrayType" -> ArrayTypeThrows(arg, options)
    [] ctor = "AllOf" -> AllOfThrows(arg, options)
    [] ctor = "AnyOf" -> AnyOfThrows(arg, options)

\* the attributes every constructor gives its descriptor from its arguments
Built(ctor, arg, options) ==
  LET given_ == Default(options, Obj(<<>>, <<>>))
  IN [form |-> "object", ctor |-> ctor,
      name |-> IF ctor \notin {"BoolType", "NullType", "ExactObject", "ObjectOf"}
                  /\ HasKey(given_, "name") /\ ~ empty(Prop(given_, "name"))
               THEN Prop(given_, "name").atom ELSE ctor,
      arg |-> arg,
      options |-> given_]

\* the options objects of the model
OptionsObjects ==
  {Undef,
   Obj(<<>>, <<>>),
   Obj(<<"name", "title", "description", "isRequired">>,
       <<Str("N"), Str("T"), Str("D"), Bool("true")>>),
   Obj(<<"foo">>, <<Num("1")>>),
   Obj(<<"title", "foo">>, <<Str("T"), Num("1")>>),
   Obj(<<"title">>, <<Num("1")>>),
   Obj(<<"minLength">>, <<Num("1")>>),
   Obj(<<"minItems">>, <<Num("1")>>),
   Obj(<<"required">>, <<Arr(<<Str("a")>>)>>),
   Obj(<<"required">>, <<Arr(<<Str("a"), Num("1")>>)>>)}

\* the first arguments of the model
Arguments ==
  {Undef, Null, Num("1"), Str(""), Str("string"), Fn("fn"), Fn(""),
   Arr(<<>>), Arr(<<Str("string")>>), Arr(<<Str("string"), Str("null")>>),
   Obj(<<>>, <<>>), Obj(<<"a">>, <<Str("string")>>)}

InitConstruct ==
  /\ heap = <<>>
  /\ schema = StringForm("any")
  /\ given = NoCall
  /\ value = Undef
  /\ errors = Undefined
  /\ valid = FALSE
  /\ op = "init"

\* a constructor call: it throws, or returns the descriptor
CallConstructor(ctor, arg, options) ==
  LET raised == Throws(ctor, arg, options)
  IN /\ op = "init"
     /\ given' = [ctor |-> ctor, arg |-> arg, options |-> options, raised |-> raised,
                  returned |-> IF raised = "" THEN <<Built(ctor, arg, options)>> ELSE <<>>]
     /\ schema' = IF raised = "" THEN Built(ctor, arg, options) ELSE schema
     /\ op' = IF raised = "" THEN "build" ELSE "raise"
     /\ UNCHANGED <<heap, value, errors, valid>>

NextConstruct ==
  \/ \E options \in OptionsObjects : CallConstructor("StringType", Undef, options)
  \/ \E options \in OptionsObjects : CallConstructor("NumberType", Undef, options)
  \/ \E options \in OptionsObjects : CallConstructor("BoolType", Undef, options)
  \/ \E options \in OptionsObjects : CallConstructor("NullType", Undef, options)
  \/ \E arg \in Arguments, options \in OptionsObjects : CallConstructor("TypeOf", arg, options)
  \/ \E arg \in Arguments, options \in OptionsObjects : CallConstructor("Enum", arg, options)
  \/ \E arg \in Arguments, options \in OptionsObjects : CallConstructor("InstanceOf", arg, options)
  \/ \E arg \in Arguments, options \in OptionsObjects : CallConstructor("Validate", arg, options)
  \/ \E arg \in Arguments, options \in OptionsObjects : CallConstructor("ObjectType", arg, options)
  \/ \E arg \in Arguments, options \in OptionsObjects : CallConstructor("ExactObject", arg, options)
  \/ \E arg \in Arguments, options \in OptionsObjects : CallConstructor("ObjectOf", arg, options)
  \/ \E arg \in Arguments, options \in OptionsObjects : CallConstructor("ArrayType", arg, options)
  \/ \E arg \in Arguments, options \in OptionsObjects : CallConstructor("AllOf", arg, options)
  \/ \E arg \in Arguments, options \in OptionsObjects : CallConstructor("AnyOf", arg, options)

SpecConstruct == InitConstruct /\ [][NextConstruct]_vars

-----------------------------------------------------------------------------
(* The caller of SpecForms writes a type description in one of its forms,  *)
(* then normalises it with typeObject or validates a value against it.     *)

\* new Date()
Date == [t |-> "object", cls |-> "Date", atom |-> "", keys |-> <<>>, items |-> <<>>]

FormValues ==
  {Str("s"), Num("1"), Num("NaN"), Bool("true"), Null, Undef, Arr(<<>>),
   Obj(<<>>, <<>>), Fn("fn"), Date}

KindNames == {"string", "number", "null", "date", "function", "undefined", "any"}

KindLists == UNION {[1..n -> KindNames] : n \in 1..MaxKinds}

\* the kinds of the descriptions of no recognized form: 5, true and {}
OtherForms == {"number", "boolean", "object"}

NoForm == [call |-> "", kinds |-> <<>>, description |-> <<>>, raised |-> ""]

InitForms ==
  /\ heap = <<>>
  /\ schema = StringForm("any")
  /\ given = NoForm
  /\ value \in FormValues
  /\ errors = Undefined
  /\ valid = FALSE
  /\ op = "init"

\* the string 'k1|...|kn' or 'k1|...|kn!'
WriteString(kinds, bang) ==
  /\ op = "init"
  /\ schema' = StringForm(Join(kinds, "|") \o bang)
  /\ given' = [NoForm EXCEPT !.call = "string", !.kinds = kinds]
  /\ op' = "build"
  /\ UNCHANGED <<heap, value, errors, valid>>

\* the schema object {type: [k1, ..., kn]}
WriteSchema(kinds) ==
  /\ op = "init"
  /\ schema' = [form |-> "object", type |-> kinds]
  /\ given' = [NoForm EXCEPT !.call = "schema", !.kinds = kinds]
  /\ op' = "build"
  /\ UNCHANGED <<heap, value, errors, valid>>

\* the array [k]
WriteArray(kind) ==
  /\ op = "init"
  /\ schema' = ArrayForm(StringForm(kind))
  /\ given' = [NoForm EXCEPT !.call = "array", !.kinds = <<kind>>]
  /\ op' = "build"
  /\ UNCHANGED <<heap, value, errors, valid>>

\* a custom routine
WriteFunction(result) ==
  /\ op = "init"
  /\ schema' = FunctionForm(Routine(result))
  /\ given' = [NoForm EXCEPT !.call = "function"]
  /\ op' = "build"
  /\ UNCHANGED <<heap, value, errors, valid>>

\* a description of no recognized form: 5, true or {}
WriteOther(form) ==
  /\ op = "init"
  /\ schema' = [form |-> form]
  /\ given' = [NoForm EXCEPT !.call = "other"]
  /\ op' = "other"
  /\ UNCHANGED <<heap, value, errors, valid>>

\* a string without a kind name: '' or '!'
WriteBlank(bang) ==
  /\ op = "init"
  /\ schema' = StringForm(bang)
  /\ given' = [NoForm EXCEPT !.call = "blank"]
  /\ op' = "other"
  /\ UNCHANGED <<heap, value, errors, valid>>

\* TypeOf(k); Required is applied to it before it is used
CallTypeOf(kind) ==
  /\ op = "init"
  /\ schema' = TypeOf(<<kind>>, DefaultOptions)
  /\ given' = [NoForm EXCEPT !.call = "TypeOf", !.kinds = <<kind>>]
  /\ op' = "TypeOf"
  /\ UNCHANGED <<heap, value, errors, valid>>

\* Required(description) of the TypeOf descriptor
CallRequiredTypeOf ==
  /\ op = "TypeOf"
  /\ CallRequired

\* typeObject(description), and typeObject of what it returned
CallTypeObject ==
  LET raised == typeObjectThrows(schema)
  IN /\ op \in {"build", "other", "typeObject"}
     /\ given' = [given EXCEPT !.description = <<schema>>, !.raised = raised]
     /\ schema' = IF raised = "" THEN typeObject(schema) ELSE schema
     /\ op' = IF raised # "" THEN "raise"
              ELSE IF op = "typeObject" THEN "typeObject again" ELSE "typeObject"
     /\ UNCHANGED <<heap, value, errors, valid>>

NextForms ==
  \/ \E kinds \in KindLists, bang \in {"", "!"} : WriteString(kinds, bang)
  \/ \E kinds \in KindLists : WriteSchema(kinds)
  \/ \E kind \in KindNames : WriteArray(kind)
  \/ \E result \in RoutineResults : WriteFunction(result)
  \/ \E form \in OtherForms : WriteOther(form)
  \/ \E bang \in {"", "!"} : WriteBlank(bang)
  \/ \E kind \in KindNames : CallTypeOf(kind)
  \/ CallRequiredTypeOf
  \/ CallTypeObject
  \/ CallTypeErrors
  \/ CallIsValid

SpecForms == InitForms /\ [][NextForms]_vars

-----------------------------------------------------------------------------
(* The caller of SpecConstraints builds a StringType, a NumberType or an   *)
(* ArrayType with length and range options, 0 included, and validates a    *)
(* value of any kind; it also asks typeOf for the kind of the value.       *)

RECURSIVE StringsOf(_)
StringsOf(n) ==
  IF n = 0 THEN {""}
  ELSE LET shorter == StringsOf(n - 1)
       IN shorter \cup {str \o c : str \in shorter, c \in {"a", "b"}}

RECURSIVE ArraysOf(_)
ArraysOf(n) ==
  IF n = 0 THEN {<<>>}
  ELSE LET shorter == ArraysOf(n - 1)
       IN shorter \cup {Append(items, item) : items \in shorter, item \in {Str("a"), Num("1")}}

\* new Error(), /a/ and Symbol()
ErrorValue == [t |-> "object", cls |-> "Error", atom |-> "", keys |-> <<>>, items |-> <<>>]
RegExpValue == [t |-> "object", cls |-> "RegExp", atom |-> "", keys |-> <<>>, items |-> <<>>]
SymbolValue == [t |-> "symbol", cls |-> "", atom |-> "", keys |-> <<>>, items |-> <<>>]

Numbers == {Num("-1"), Num("0"), Num("1"), Num("2"), Num("NaN"), Num("Infinity"), Num("-Infinity")}

ConstraintValues ==
  {Str(str) : str \in StringsOf(MaxLength + 1)}
    \cup {Arr(items) : items \in ArraysOf(MaxItems + 1)}
    \cup Numbers
    \cup {Bool("true"), Null, Undef, Obj(<<>>, <<>>), Fn("fn"), Date, ErrorValue,
          RegExpValue, SymbolValue}

\* a length bound: -1 when the option is absent
LengthBounds(max) == {-1} \cup 0..max

\* a range bound: <<>> when the option is absent
RangeBounds == {<<>>, <<0>>, <<1>>}

NoKind == [kind |-> ""]

InitConstraints ==
  /\ heap = <<>>
  /\ schema = StringForm("any")
  /\ given = NoKind
  /\ value \in ConstraintValues
  /\ errors = Undefined
  /\ valid = FALSE
  /\ op = "init"

CallStringType(minLength, maxLength, pattern) ==
  /\ op = "init"
  /\ schema' = StringType(StringOptions(minLength, maxLength, pattern))
  /\ op' = "build"
  /\ UNCHANGED <<heap, given, value, errors, valid>>

CallNumberType(minimum, maximum) ==
  /\ op = "init"
  /\ schema' = NumberType(NumberOptions(minimum, maximum))
  /\ op' = "build"
  /\ UNCHANGED <<heap, given, value, errors, valid>>

CallArrayTypeOptions(items, minItems, maxItems) ==
  /\ op = "init"
  /\ schema' = ArrayType(StringForm(items), ArrayOptions(minItems, maxItems))
  /\ op' = "build"
  /\ UNCHANGED <<heap, given, value, errors, valid>>

\* the string 'number'
WriteNumber ==
  /\ op = "init"
  /\ schema' = StringForm("number")
  /\ op' = "build"
  /\ UNCHANGED <<heap, given, value, errors, valid>>

\* typeOf(value)
CallTypeOfValue ==
  /\ op = "init"
  /\ given' = [kind |-> typeOf(value)]
  /\ op' = "typeOf"
  /\ UNCHANGED <<heap, schema, value, errors, valid>>

NextConstraints ==
  \/ \E minLength \in LengthBounds(MaxLength), maxLength \in LengthBounds(MaxLength),
        pattern \in {"", "^a", "b$"} : CallStringType(minLength, maxLength, pattern)
  \/ \E minimum \in RangeBounds, maximum \in RangeBounds : CallNumberType(minimum, maximum)
  \/ \E items \in {"string", "any"}, minItems \in LengthBounds(MaxItems),
        maxItems \in LengthBounds(MaxItems) : CallArrayTypeOptions(items, minItems, maxItems)
  \/ WriteNumber
  \/ CallTypeOfValue
  \/ CallTypeErrors
  \/ CallIsValid

SpecConstraints == InitConstraints /\ [][NextConstraints]_vars

-----------------------------------------------------------------------------
(* The caller of SpecNested writes a nested literal, hands it to           *)
(* NestedObject, and writes the same schema with explicit ObjectType and   *)
(* ArrayType calls, innermost call first.                                  *)

\* ObjectType(properties) with the default options, a new object
ObjectTypeDefault(H, properties) ==
  ObjectType(Append(H, ObjectOptions(<<>>, "undefined", <<>>)), properties, Len(H) + 1)

\* the nested literals of the model
NestedLiteral(n) ==
  CASE n = 1 -> Literal(<<Property("name", StringForm("string!")),
                          Property("n", StringForm("number"))>>)
    [] n = 2 -> Literal(<<Property("foo", Literal(<<Property("bar", StringForm("number"))>>))>>)
    [] n = 3 -> Literal(<<Property("list",
                            ArrayForm(Literal(<<Property("baz", StringForm("boolean!"))>>)))>>)
    [] n = 4 -> Literal(<<Property("u", Username),
                          Property("list", ArrayForm(StringForm("string")))>>)

\* the same schemas written with ObjectType and ArrayType
ExplicitType(H, n) ==
  CASE n = 1 -> ObjectTypeDefault(H, <<Property("name", StringForm("string!")),
                                       Property("n", StringForm("number"))>>)
    [] n = 2 ->
       LET foo == ObjectTypeDefault(H, <<Property("bar", StringForm("number"))>>)
       IN ObjectTypeDefault(foo.heap, <<Property("foo", foo.type)>>)
    [] n = 3 ->
       LET item == ObjectTypeDefault(H, <<Property("baz", StringForm("boolean!"))>>)
       IN ObjectTypeDefault(item.heap,
            <<Property("list", ArrayType(item.type, ArrayOptions(-1, -1)))>>)
    [] n = 4 ->
       ObjectTypeDefault(H, <<Property("u", Username),
                              Property("list", ArrayType(StringForm("string"),
                                                         ArrayOptions(-1, -1)))>>)

NestedValues ==
  {Num("1"),
   Obj(<<>>, <<>>),
   Obj(<<"name">>, <<Str("s")>>),
   Obj(<<"name", "n">>, <<Num("1"), Str("s")>>),
   Obj(<<"foo">>, <<Obj(<<"bar">>, <<Num("1")>>)>>),
   Obj(<<"foo">>, <<Obj(<<"bar">>, <<Str("s")>>)>>),
   Obj(<<"foo">>, <<Str("s")>>),
   Obj(<<"list">>, <<Arr(<<Obj(<<"baz">>, <<Bool("true")>>)>>)>>),
   Obj(<<"list">>, <<Arr(<<Obj(<<>>, <<>>), Obj(<<"baz">>, <<Num("1")>>)>>)>>),
   Obj(<<"list">>, <<Str("s")>>),
   Obj(<<"u", "list">>, <<Str("ab"), Arr(<<Str("s"), Num("1")>>)>>),
   Obj(<<"u">>, <<Str("b")>>)}

NoLiteral == [literal |-> 0, explicit |-> <<>>]

InitNested ==
  /\ heap = <<>>
  /\ schema = StringForm("any")
  /\ given = NoLiteral
  /\ value \in NestedValues
  /\ errors = Undefined
  /\ valid = FALSE
  /\ op = "init"

\* NestedObject(literal), then the explicit calls
CallNestedObject(n) ==
  /\ op = "init"
  /\ LET nested == NestedObject(heap, NestedLiteral(n))
         explicit == ExplicitType(nested.heap, n)
     IN /\ heap' = explicit.heap
        /\ schema' = nested.type
        /\ given' = [literal |-> n, explicit |-> <<explicit.type>>]
  /\ op' = "build"
  /\ UNCHANGED <<value, errors, valid>>

NextNested ==
  \/ \E n \in 1..4 : CallNestedObject(n)
  \/ CallTypeErrors
  \/ CallIsValid

SpecNested == InitNested /\ [][NextNested]_vars

-----------------------------------------------------------------------------
(* What a validation call throws.  SpecThrow builds descriptors whose      *)
(* options pass the construction-time checks and validates values against  *)
(* them; a call gives the message of the Error it throws, "" when it       *)
(* returns.                                                                *)

\* new RegExp(pattern) throws a SyntaxError: the model's patterns with an
\* unterminated class or group
InvalidPatterns == {"[", "("}

RegExpThrows(pattern) ==
  IF pattern \in InvalidPatterns
  THEN "Invalid regular expression: /" \o pattern \o "/"
  ELSE ""

\* Object.keys(patternProperties).find(pattern => key.match(new RegExp(pattern))):
\* the patterns are compiled in order up to the first that matches
RECURSIVE FindPatternThrows(_, _, _)
FindPatternThrows(patterns, key, i) ==
  IF i > Len(patterns) THEN ""
  ELSE IF RegExpThrows(patterns[i].pattern) # "" THEN RegExpThrows(patterns[i].pattern)
  ELSE IF RegExpMatch(key, patterns[i].pattern) THEN ""
  ELSE FindPatternThrows(patterns, key, i + 1)

RECURSIVE PatternKeysThrow(_, _, _)
PatternKeysThrow(patterns, keys, i) ==
  IF i > Len(keys) THEN ""
  ELSE Then(FindPatternThrows(patterns, keys[i], 1), PatternKeysThrow(patterns, keys, i + 1))

\* typeErrors(type, value) for a StringType, an InstanceOf or an ObjectType
\* without properties
typeErrorsThrows(H, type, val) ==
  LET _typeObject == typeObject(type)
      kinds == Attr(_typeObject, "type", <<>>)
  IN IF Len(kinds) > 0
        /\ ~ \E i \in 1..Len(kinds) : typeOf(val) = kinds[i] \/ kinds[i] = "any"
     THEN ""
     ELSE IF ~ HasValidate(_typeObject) THEN ""
     ELSE IF _typeObject.ctor = "StringType"
       THEN IF _typeObject.options.pattern # ""
            THEN RegExpThrows(_typeObject.options.pattern) ELSE ""
     ELSE IF _typeObject.ctor = "InstanceOf"
       THEN IF _typeObject.arg.t # "function"
            THEN "Right-hand side of 'instanceof' is not callable" ELSE ""
     ELSE IF _typeObject.ctor = "ObjectType"
       THEN PatternKeysThrow(H[_typeObject.ref].patternProperties, val.keys, 1)
     ELSE ""

\* the caller's patternProperties objects
ThrowPatternSets ==
  {<<"^a">>, <<"[">>, <<"^a", "[">>, <<"(", "b$">>}

\* the caller's classes: Date, Error, Object, and objects with a name
ThrowClasses ==
  {Fn("Date"), Fn("Error"), Fn("Object"), Obj(<<"name">>, <<Str("x")>>),
   Obj(<<"name", "length">>, <<Str("Date"), Num("1")>>)}

ThrowValues ==
  {Str("a"), Str("b"), Num("1"), Null, Arr(<<>>), Date, ErrorValue,
   Obj(<<>>, <<>>), Obj(<<"a">>, <<Str("s")>>), Obj(<<"b">>, <<Str("s")>>)}

NoThrow == [raised |-> ""]

InitThrow ==
  /\ heap = <<>>
  /\ schema = StringForm("any")
  /\ given = NoThrow
  /\ value \in ThrowValues
  /\ errors = Undefined
  /\ valid = FALSE
  /\ op = "init"

\* StringType({pattern})
CallStringTypePattern(pattern) ==
  /\ op = "init"
  /\ StringTypeThrows(Obj(<<"pattern">>, <<Str(pattern)>>)) = ""
  /\ schema' = StringType(StringOptions(-1, -1, pattern))
  /\ op' = "build"
  /\ UNCHANGED <<heap, given, value, errors, valid>>

\* ObjectType({}, {patternProperties}) with every pattern of type 'string'
CallObjectTypePatterns(patterns) ==
  /\ op = "init"
  /\ ObjectTypeThrows(Obj(<<>>, <<>>),
                      Obj(<<"patternProperties">>,
                          <<Obj(patterns, [i \in 1..Len(patterns) |-> Str("string")])>>)) = ""
  /\ LET patternProperties ==
           [i \in 1..Len(patterns) |-> Pattern(patterns[i], StringForm("string"))]
         H == Append(heap, ObjectOptions(<<>>, "undefined", patternProperties))
         built == ObjectType(H, <<>>, Len(H))
     IN /\ heap' = built.heap
        /\ schema' = built.type
  /\ op' = "build"
  /\ UNCHANGED <<given, value, errors, valid>>

\* InstanceOf(klass)
CallInstanceOf(klass) ==
  /\ op = "init"
  /\ InstanceOfThrows(klass, Undef) = ""
  /\ schema' = InstanceOf(klass, DefaultOptions)
  /\ op' = "build"
  /\ UNCHANGED <<heap, given, value, errors, valid>>

\* typeErrors(schema, value): it throws, or returns
CallTypeErrorsThrowing ==
  LET raised == typeErrorsThrows(heap, schema, value)
  IN /\ op = "build"
     /\ given' = [raised |-> raised]
     /\ errors' = IF raised = "" THEN typeErrors(heap, schema, value, <<>>) ELSE errors
     /\ op' = IF raised = "" THEN "typeErrors" ELSE "throw"
     /\ UNCHANGED <<heap, schema, value, valid>>

NextThrow ==
  \/ \E pattern \in {"^a", "b$"} \cup InvalidPatterns : CallStringTypePattern(pattern)
  \/ \E patterns \in ThrowPatternSets : CallObjectTypePatterns(patterns)
  \/ \E klass \in ThrowClasses : CallInstanceOf(klass)
  \/ CallTypeErrorsThrowing
  \/ CallIsValid

SpecThrow == InitThrow /\ [][NextThrow]_vars

-----------------------------------------------------------------------------
(* assertType and assertOptions, and a caller that passes one options      *)
(* object, heap[1], to several ObjectType calls.                           *)

\* new TypeError(type, value, message, {childErrors}): childErrors is set
\* only when the array is not empty
AggregateError(val, message, childErrors) ==
  [message |-> message, value |-> val, code |-> "", path |-> <<>>,
   childErrors |-> IF Len(childErrors) > 0 THEN Errors(childErrors) ELSE Undefined]

\* the throw of assertType for the errors typeErrors returned: an array,
\* empty or not, is truthy
throwIfErrors(val, _errors) ==
  IF _errors.defined
  THEN [raised |-> TRUE,
        error |-> <<AggregateError(val,
                      "value has invalid type - there are "
                        \o ToString(Len(_errors.errs)) \o " type errors: "
                        \o Join([i \in 1..Len(_errors.errs) |-> _errors.errs[i].message], ", "),
                      _errors.errs)>>]
  ELSE [raised |-> FALSE, error |-> <<>>]

\* assertType(type, value): whether it raises, and the error raised
assertType(H, type, val) == throwIfErrors(val, typeErrors(H, type, val, <<>>))

\* assertOptions handing ObjectType the options object it validates
assertOptionsRef_Input(H) == 1

\* the options object of ObjectType(validOptions): the default {} of the call
assertOptionsRef(H) == Len(H) + 1

\* an options object as the value assertOptions validates
OptionsValue(options) ==
  LET required == IF Len(options.required) > 0
                  THEN <<Property("required",
                                  Arr([i \in 1..Len(options.required) |-> Str(options.required[i])]))>>
                  ELSE <<>>
      additional == IF options.additionalProperties # "undefined"
                    THEN <<Property("additionalProperties", Bool(options.additionalProperties))>>
                    ELSE <<>>
      entries == required \o additional
  IN Obj([i \in 1..Len(entries) |-> entries[i].key], [i \in 1..Len(entries) |-> entries[i].type])

\* assertOptions(options, validOptions) with the options object H[ref]:
\* assertType(ObjectType(validOptions), options)
assertOptions(H, ref, validOptions) ==
  LET H2 == Append(H, ObjectOptions(<<>>, "undefined", <<>>))
      built == ObjectType(H2, validOptions, assertOptionsRef(H))
  IN [heap |-> built.heap,
      outcome |-> assertType(built.heap, built.type, OptionsValue(H[ref]))]

\* the later ObjectType calls the caller makes with the same options object
MaxLater == 2

CallerOptions ==
  {ObjectOptions(required, additionalProperties, <<>>) :
     required \in {<<>>, <<"c">>}, additionalProperties \in {"undefined", "false"}}

SharedPropertySets ==
  {<<Property("a", StringForm("string!"))>>,
   <<Property("b", StringForm("number!"))>>,
   <<Property("a", StringForm("string")), Property("b", StringForm("number"))>>}

SharedValues ==
  {Num("1"), Obj(<<>>, <<>>), Obj(<<"a">>, <<Str("s")>>), Obj(<<"b">>, <<Num("1")>>),
   Obj(<<"a", "c">>, <<Num("1"), Arr(<<Str("s")>>)>>)}

\* descriptors of the caller that are not ObjectTypes
SharedTypes ==
  {StringForm("number"), FunctionForm(Routine(RArray(<<>>))),
   FunctionForm(Routine(RArray(<<Msg("m1"), Msg("m2")>>)))}

\* the valid options assertOptions is given
ValidOptionSets ==
  {<<Property("required", ArrayForm(StringForm("string"))),
     Property("additionalProperties", StringForm("boolean"))>>,
   <<Property("required", StringForm("string")),
     Property("additionalProperties", StringForm("boolean!"))>>}

InitShared ==
  /\ \E options \in CallerOptions :
       /\ heap = <<options>>
       /\ given = [original |-> options, later |-> 0, raised |-> FALSE, error |-> <<>>]
  /\ schema \in SharedTypes
  /\ value \in SharedValues
  /\ errors = Undefined
  /\ valid = FALSE
  /\ op = "init"

\* const T = ObjectType(properties, options)
CallObjectTypeShared(properties) ==
  /\ op = "init"
  /\ LET built == ObjectType(heap, properties, 1)
     IN /\ heap' = built.heap
        /\ schema' = built.type
  /\ op' = "build"
  /\ UNCHANGED <<given, value, errors, valid>>

\* ObjectType(properties, options) once more, T kept for validation
CallObjectTypeLater(properties) ==
  /\ op = "build"
  /\ given.later < MaxLater
  /\ heap' = ObjectType(heap, properties, 1).heap
  /\ given' = [given EXCEPT !.later = @ + 1]
  /\ UNCHANGED <<schema, value, errors, valid, op>>

\* assertType(schema, value)
CallAssertType ==
  /\ op \in {"init", "build"}
  /\ LET outcome == assertType(heap, schema, value)
     IN given' = [given EXCEPT !.raised = outcome.raised, !.error = outcome.error]
  /\ op' = "assertType"
  /\ UNCHANGED <<heap, schema, value, errors, valid>>

\* assertOptions(options, validOptions)
CallAssertOptions(validOptions) ==
  /\ op \in {"init", "build"}
  /\ LET result == assertOptions(heap, 1, validOptions)
     IN /\ heap' = result.heap
        /\ given' = [given EXCEPT !.raised = result.outcome.raised,
                                  !.error = result.outcome.error]
  /\ op' = "assertOptions"
  /\ UNCHANGED <<schema, value, errors, valid>>

NextShared ==
  \/ \E properties \in SharedPropertySets : CallObjectTypeShared(properties)
  \/ \E properties \in SharedPropertySets : CallObjectTypeLater(properties)
  \/ CallTypeErrors
  \/ CallIsValid
  \/ CallAssertType
  \/ \E validOptions \in ValidOptionSets : CallAssertOptions(validOptions)

SpecShared == InitShared /\ [][NextShared]_vars

-----------------------------------------------------------------------------
(* One descriptor validated several times.  The caller's routine returns   *)
(* a TypeError it made once, `const e = new TypeError(...)` with           *)
(* `v => e`: the object heap[1].  heap[2] is the options object of the     *)
(* ObjectType call.                                                        *)

MaxCalls == 2

\* const e = new TypeError(undefined, undefined, 'retained')
RetainedError == TypeError(Undef, "retained", NoOptions)

\* v => e, returned for the numbers
RetainedRoutine == FunctionForm(Routine(RSingle(Err(RetainedError))))

IsRetained(error) == error.message = RetainedError.message

\* typeErrors(type, value) where the routine's error object is H[1]: line 52
\* gives the object a path when it has none, an object that has a path
\* keeps it, and every place of the result that holds the object shows the
\* one path.  The errors returned, and the heap after the call.
WithRetainedPath(H, _errors) ==
  LET held == SelectSeq([i \in 1..Len(_errors.errs) |-> i],
                        LAMBDA i : IsRetained(_errors.errs[i]))
      errorPath == IF H[1].path # <<>> \/ Len(held) = 0 THEN H[1].path
                   ELSE _errors.errs[held[1]].path
  IN [heap |-> [H EXCEPT ![1].path = errorPath],
      errors |-> IF _errors.defined
                 THEN Errors([i \in 1..Len(_errors.errs) |->
                                IF IsRetained(_errors.errs[i])
                                THEN [_errors.errs[i] EXCEPT !.path = errorPath]
                                ELSE _errors.errs[i]])
                 ELSE Undefined]

typeErrorsRetained(H, type, val) ==
  WithRetainedPath(H, typeErrors(H, type, val, <<>>))

ReuseItems == {Num("1"), Str("x")}

ReuseValues ==
  {Num("1"), Arr(<<>>), Obj(<<>>, <<>>)}
    \cup {Arr(<<x>>) : x \in ReuseItems}
    \cup {Arr(<<x, y>>) : x \in ReuseItems, y \in ReuseItems}
    \cup {Obj(<<"a">>, <<x>>) : x \in ReuseItems}
    \cup {Obj(<<"b">>, <<x>>) : x \in ReuseItems}
    \cup {Obj(<<"a", "b">>, <<x, Num("1")>>) : x \in ReuseItems}

NoCalls == [calls |-> 0]

InitReuse ==
  /\ heap = <<RetainedError, ObjectOptions(<<>>, "undefined", <<>>)>>
  /\ schema = RetainedRoutine
  /\ given = NoCalls
  /\ value \in ReuseValues
  /\ errors = Undefined
  /\ valid = FALSE
  /\ op = "init"

\* ArrayType(v => e)
CallArrayTypeRetained ==
  /\ op = "init"
  /\ schema' = ArrayType(RetainedRoutine, ArrayOptions(-1, -1))
  /\ op' = "build"
  /\ UNCHANGED <<heap, given, value, errors, valid>>

\* ObjectType({a: v => e, b: v => e})
CallObjectTypeRetained ==
  /\ op = "init"
  /\ LET built == ObjectType(heap, <<Property("a", RetainedRoutine),
                                     Property("b", RetainedRoutine)>>, 2)
     IN /\ heap' = built.heap
        /\ schema' = built.type
  /\ op' = "build"
  /\ UNCHANGED <<given, value, errors, valid>>

\* typeErrors(schema, v) for the next value v of the caller
CallTypeErrorsNext(v) ==
  /\ op \in {"build", "typeErrors", "isValid"}
  /\ given.calls < MaxCalls
  /\ LET result == typeErrorsRetained(heap, schema, v)
     IN /\ heap' = result.heap
        /\ errors' = result.errors
  /\ value' = v
  /\ given' = [calls |-> given.calls + 1]
  /\ op' = "typeErrors"
  /\ UNCHANGED <<schema, valid>>

NextReuse ==
  \/ CallArrayTypeRetained
  \/ CallObjectTypeRetained
  \/ \E v \in ReuseValues : CallTypeErrorsNext(v)
  \/ CallIsValid

SpecReuse == InitReuse /\ [][NextReuse]_vars

-----------------------------------------------------------------------------
(* Properties *)

IsCtor(type, ctor) == type.form = "object" /\ HasValidate(type) /\ type.ctor = ctor

\* a bare routine, or the descriptor Validate makes of it
IsRoutineType(type) == type.form = "function" \/ IsCtor(type, "Validate")

\* the value a path leads to from a root value: <<v>>, or <<>> when the
\* path leaves the value
RECURSIVE Follow(_, _)
Follow(v, path) ==
  IF Len(path) = 0 THEN <<v>>
  ELSE LET seg == Head(path)
       IN IF seg.isIndex
          THEN IF v.cls = "Array" /\ seg.index < Len(v.items)
               THEN Follow(v.items[seg.index + 1], Tail(path)) ELSE <<>>
          ELSE IF v.cls = "Object" /\ HasKey(v, seg.key)
               THEN Follow(Prop(v, seg.key), Tail(path)) ELSE <<>>

Prefixed(seg, errs) ==
  [i \in 1..Len(errs) |-> [errs[i] EXCEPT !.path = <<seg>> \o @]]

\* C1: isValid(d, v) is true exactly when typeErrors(d, v) is undefined,
\* whatever the routine of d returns.
C1_IsValidIffUndefined == op = "isValid" => (valid <=> errors = Undefined)

\* the routine returned an empty array: typeErrors gave [] and isValid false
C1_Witness == op = "isValid" /\ ~ valid /\ errors = Errors(<<>>)

\* C2: typeErrors returns undefined or a sequence of at least one error,
\* also when a custom routine returns an empty sequence or null.
C2_NeverEmpty == errors.defined => Len(errors.errs) >= 1

\* C3: typeErrors turns each routine result into the error model:
\* undefined/true into undefined, false into one 'is invalid' error, a
\* message into one error with that message, n messages into n errors, the
\* i-th with the i-th message.
C3_Normalized ==
  (op = "typeErrors" /\ IsRoutineType(schema)) =>
    LET result == Apply(schema.fn, value)
    IN CASE result.shape \in {"undefined", "true"} -> errors = Undefined
         [] result.shape = "false" ->
              /\ errors.defined /\ Len(errors.errs) = 1
              /\ errors.errs[1].message = "is invalid"
         [] result.shape = "single" ->
              /\ errors.defined /\ Len(errors.errs) = 1
              /\ errors.errs[1].message = result.item.msg
         [] result.shape = "array" /\ Len(result.items) >= 1 ->
              /\ errors.defined /\ Len(errors.errs) = Len(result.items)
              /\ \A i \in 1..Len(result.items) :
                   errors.errs[i].message = result.items[i].msg
         [] OTHER -> TRUE

\* C4: the path of every error typeErrors(d, root) returns leads from root
\* to the value the error is about, at any nesting depth.
C4_PathLocatesValue ==
  op = "typeErrors" =>
    \A i \in 1..Len(errors.errs) :
      Follow(value, errors.errs[i].path) = <<errors.errs[i].value>>

\* C5: for an object, the errors of an ObjectType other than its own
\* required/additionalProperties errors are, for each declared property k
\* present in the value, exactly the errors of typeErrors(type of k, value[k])
\* with their path prefixed by k; no property's errors are dropped.
C5_ObjectExhaustive ==
  (op = "typeErrors" /\ IsCtor(schema, "ObjectType") /\ typeOf(value) = "object") =>
    SelectSeq(errors.errs,
              LAMBDA e : ~ (Len(e.path) = 0 /\ e.code \in {"required", "additionalProperties"}))
      = flatten([i \in 1..Len(schema.properties) |->
                   IF HasKey(value, schema.properties[i].key)
                   THEN Prefixed(KeySeg(schema.properties[i].key),
                                 array(typeErrors(heap, schema.properties[i].type,
                                                  Prop(value, schema.properties[i].key), <<>>)))
                   ELSE <<>>])

\* C6: for an array, the errors of an ArrayType are the errors of every
\* element against the items type, element by element in ascending index
\* order, the path of the errors of element i extended by i.
C6_ArrayExhaustive ==
  (op = "typeErrors" /\ IsCtor(schema, "ArrayType") /\ typeOf(value) = "array") =>
    errors.errs
      = flatten([i \in 1..Len(value.items) |->
                   Prefixed(IdxSeg(i - 1),
                            array(typeErrors(heap, schema.items, value.items[i], <<>>)))])

\* C7: AllOf returns exactly the errors of the first member, in declaration
\* order, that fails, nothing of the members after it, and undefined iff
\* every member validates cleanly.
C7_AllOfFirstFailure ==
  (op = "typeErrors" /\ IsCtor(schema, "AllOf")) =>
    LET failing == {i \in 1..Len(schema.arg) :
                      ~ isValid(heap, schema.arg[i], value)}
    IN IF failing = {} THEN errors = Undefined
       ELSE LET first == CHOOSE i \in failing : \A j \in failing : i <= j
            IN errors = typeErrors(heap, schema.arg[first], value, <<>>)

\* two members fail, the first with an error of its own
C7_Witness ==
  /\ op = "typeErrors" /\ IsCtor(schema, "AllOf")
  /\ \A i \in 1..Len(schema.arg) : ~ isValid(heap, schema.arg[i], value)
  /\ Len(schema.arg) = 2
  /\ typeErrors(heap, schema.arg[1], value, <<>>) # typeErrors(heap, schema.arg[2], value, <<>>)
  /\ Len(errors.errs) >= 1

\* C8: AnyOf(types) validates a value iff at least one member does; when no
\* member does, typeErrors returns exactly one error, without code, whose
\* message names the union by its members, and no error of a member.
C8_AnyOfUnion ==
  (op = "typeErrors" /\ IsCtor(schema, "AnyOf")) =>
    IF \E i \in 1..Len(schema.arg) : isValid(heap, schema.arg[i], value)
    THEN errors = Undefined
    ELSE /\ errors.defined /\ Len(errors.errs) = 1
         /\ errors.errs[1].code = ""
         /\ errors.errs[1].value = value
         /\ errors.errs[1].message =
              "must be of type AnyOf("
                \o Join([i \in 1..Len(schema.arg) |-> toString(schema.arg[i])], ", ")
                \o ")"

\* no member matches, and the members have errors of their own
C8_Witness ==
  /\ op = "typeErrors" /\ IsCtor(schema, "AnyOf") /\ errors.defined
  /\ \A i \in 1..Len(schema.arg) :
       Len(typeErrors(heap, schema.arg[i], value, <<>>).errs) >= 1

\* a description marked required: a trailing '!', or isRequired: true in the
\* options of a descriptor (Required sets it)
IsMarked(type) ==
  IF type.form = "string"
  THEN Len(type.str) > 0 /\ Char(type.str, Len(type.str)) = "!"
  ELSE type.form = "object" /\ "options" \in DOMAIN type
       /\ type.options.isRequired = "true"

FirstIndex(s, x) == CHOOSE i \in 1..Len(s) : s[i] = x /\ \A j \in 1..(i - 1) : s[j] # x

\* C9: the required keys of an ObjectType are the explicit `required`
\* option followed by the declared properties marked required, in
\* declaration order, every key once.
C9_RequiredUnion ==
  Len(given.returned) > 0 =>
    LET type == given.returned[1]
        marked == SelectSeq([i \in 1..Len(given.properties) |-> given.properties[i]],
                            LAMBDA prop : IsMarked(prop.type))
        source == given.required \o [i \in 1..Len(marked) |-> marked[i].key]
        required == type.required
    IN /\ {required[i] : i \in 1..Len(required)} = {source[i] : i \in 1..Len(source)}
       /\ \A i, j \in 1..Len(required) : i < j =>
            /\ required[i] # required[j]
            /\ FirstIndex(source, required[i]) < FirstIndex(source, required[j])
       /\ heap[type.ref].required = required

\* b is named by the option and marked, a is marked through Required
C9_Witness ==
  /\ Len(given.returned) > 0
  /\ given.required = <<"b">>
  /\ given.returned[1].required = <<"b", "a">>

\* C10: when required keys are absent from an object, ObjectType gives
\* exactly one 'required' error that lists the missing keys in required-set
\* order and carries the path of the object validated (none at the root);
\* a key that is present is not listed, and no such error when none is
\* missing.
C10_RequiredError ==
  op = "typeErrors" =>
    /\ (IsCtor(schema, "ObjectType") /\ typeOf(value) = "object") =>
         LET missing == SelectSeq(schema.required, LAMBDA k : ~ HasKey(value, k))
             own == SelectSeq(errors.errs,
                              LAMBDA e : e.code = "required" /\ Len(e.path) = 0)
         IN IF Len(missing) = 0 THEN Len(own) = 0
            ELSE /\ Len(own) = 1
                 /\ own[1].value = value
                 /\ own[1].message = "is missing the following required keys: "
                                       \o Join(missing, ", ")
    /\ \A i \in 1..Len(errors.errs) :
         errors.errs[i].code = "required" =>
           Follow(value, errors.errs[i].path) = <<errors.errs[i].value>>

\* the keys of an object value no declared property covers, in encounter order
Undeclared(type, val) ==
  SelectSeq(val.keys, LAMBDA k : \A i \in 1..Len(type.properties) : type.properties[i].key # k)

\* the patterns of a patternProperties object that match a key, in declaration order
MatchingPatterns(patterns, key) ==
  SelectSeq(patterns, LAMBDA p : RegExpMatch(key, p.pattern))

\* C11: with patternProperties, the errors an ObjectType reports below the
\* object are the errors of the declared properties against their declared
\* types, then, for each key of the value that no declared property covers
\* and some pattern matches, the errors of the value under the type of the
\* first matching pattern, with the key as path; a declared key is validated
\* against its declared type only.
C11_PatternOnlyUndeclared ==
  (op = "typeErrors" /\ IsCtor(schema, "ObjectType") /\ typeOf(value) = "object") =>
    LET patterns == heap[schema.ref].patternProperties
        declared ==
          flatten([i \in 1..Len(schema.properties) |->
                     IF HasKey(value, schema.properties[i].key)
                     THEN array(typeErrors(heap, schema.properties[i].type,
                                           Prop(value, schema.properties[i].key),
                                           <<KeySeg(schema.properties[i].key)>>))
                     ELSE <<>>])
        others == Undeclared(schema, value)
        matched ==
          flatten([i \in 1..Len(others) |->
                     IF Len(MatchingPatterns(patterns, others[i])) > 0
                     THEN array(typeErrors(heap, MatchingPatterns(patterns, others[i])[1].type,
                                           Prop(value, others[i]), <<KeySeg(others[i])>>))
                     ELSE <<>>])
    IN SelectSeq(errors.errs, LAMBDA e : Len(e.path) > 0) = declared \o matched

\* C12: with additionalProperties false, an ObjectType gives one
\* 'additionalProperties' error that lists, in encounter order, the keys of
\* the value that are neither declared nor matched by a pattern, and no such
\* error when every key is declared or matched.
C12_AdditionalProperties ==
  (op = "typeErrors" /\ IsCtor(schema, "ObjectType") /\ typeOf(value) = "object"
     /\ heap[schema.ref].additionalProperties = "false") =>
    LET patterns == heap[schema.ref].patternProperties
        unmatched == SelectSeq(Undeclared(schema, value),
                               LAMBDA k : Len(MatchingPatterns(patterns, k)) = 0)
        own == SelectSeq(errors.errs, LAMBDA e : e.code = "additionalProperties")
    IN IF Len(unmatched) = 0 THEN Len(own) = 0
       ELSE /\ Len(own) = 1
            /\ own[1].message = "has the following invalid keys: " \o Join(unmatched, ", ")

\* C13: for an object, typeErrors(ObjectOf(T), value) is the concatenation,
\* over the keys of the value in encounter order, of the errors of
\* typeErrors(T, value[k]) with path [k], and undefined iff every value is
\* valid under T; any other value gives one 'typeof' error.
C13_ObjectOf ==
  (op = "typeErrors" /\ IsCtor(schema, "ObjectType") /\ schema.name = "ObjectOf") =>
    LET T == given.valueType[1]
    IN IF typeOf(value) = "object"
       THEN /\ errors.errs =
                 flatten([i \in 1..Len(value.keys) |->
                            Prefixed(KeySeg(value.keys[i]),
                                     array(typeErrors(heap, T, value.items[i], <<>>)))])
            /\ errors = Undefined <=>
                 \A i \in 1..Len(value.keys) : isValid(heap, T, value.items[i])
       ELSE /\ errors.defined /\ Len(errors.errs) = 1
            /\ errors.errs[1].code = "typeof"

\* the `required` list ObjectType({p: type}) computes
MarksRequired(type) ==
  ObjectType(<<ObjectOptions(<<>>, "undefined", <<>>)>>, <<Property("p", type)>>, 1).type.required
    = <<"p">>

\* C14: whenever typeErrors has been called with Required(TypeOf('k')), its
\* outcome is the outcome of typeErrors with the string 'k!' on the same
\* value (same validity, codes, messages), and ObjectType marks a property
\* of either type as required.
C14_BangIsRequired ==
  (op = "typeErrors" /\ given.call = "TypeOf") =>
    LET bang == StringForm(given.kinds[1] \o "!")
    IN /\ errors = typeErrors(heap, bang, value, <<>>)
       /\ MarksRequired(schema)
       /\ MarksRequired(bang)

C14_Witness ==
  /\ op = "typeErrors" /\ given.call = "TypeOf" /\ given.kinds = <<"date">>
  /\ schema.options.isRequired = "true"
  /\ value = Num("1")
  /\ errors.defined /\ errors.errs[1].message = "must be of type date but was number"

\* C15: whenever typeErrors has been called with the string 'k1|...|kn' or
\* 'k1|...|kn!', it returned undefined if the kind of the value is one of
\* the ki or some ki is 'any', and otherwise exactly one error, with code
\* 'typeof'; the ki range over JSON kinds and other kinds.
C15_StringKinds ==
  (op = "typeErrors" /\ given.call = "string") =>
    IF InSeq(typeOf(value), given.kinds) \/ InSeq("any", given.kinds)
    THEN errors = Undefined
    ELSE errors.defined /\ Len(errors.errs) = 1 /\ errors.errs[1].code = "typeof"

C15_Witness ==
  /\ op = "typeErrors" /\ given.call = "string"
  /\ schema = StringForm("string|date!")
  /\ value = Fn("fn")
  /\ errors.defined /\ Len(errors.errs) = 1 /\ errors.errs[1].code = "typeof"

C15_WitnessAny ==
  /\ op = "typeErrors" /\ given.call = "string"
  /\ schema = StringForm("null|any")
  /\ value = Date
  /\ errors = Undefined

\* typeObject makes a new descriptor of a string, an array and a function
Allocates(type) == type.form \in {"string", "array", "function"}

\* C16: for a string, a one-element array, a function and a descriptor,
\* typeObject of what typeObject returned is that same object, and
\* typeObject of a descriptor is that descriptor.
C16_Idempotent ==
  /\ (op = "typeObject again" /\ given.call \in {"string", "array", "function", "TypeOf"}) =>
       /\ schema = given.description[1]
       /\ ~ Allocates(given.description[1])
  /\ (op = "typeObject" /\ given.call \in {"string", "array", "function", "TypeOf"}
         /\ given.description[1].form = "object") =>
       /\ schema = given.description[1]
       /\ ~ Allocates(given.description[1])
  /\ (op = "typeObject" /\ given.call \in {"string", "array", "function", "TypeOf"}) =>
       /\ typeObject(schema) = schema
       /\ ~ Allocates(schema)

C16_Witness ==
  /\ op = "typeObject again" /\ given.call = "array"
  /\ given.description[1] = schema
  /\ IsCtor(schema, "ArrayType") /\ IsCtor(schema.items, "TypeOf")

\* the forms typeObject recognizes
Recognized(type) ==
  \/ type.form \in {"string", "array", "function"}
  \/ type.form = "object" /\ HasValidate(type)

\* C17: whenever typeObject has been called with a description of no
\* recognized form (a number, a boolean, a plain object without validate),
\* it raised.
C17_UnrecognizedRaises ==
  (op \in {"typeObject", "raise"} /\ ~ Recognized(given.description[1])) => op = "raise"

\* C18: whenever typeErrors has been called with a schema object
\* {type: [k1, ..., kn]} (n >= 1) that has no validate, it returned undefined
\* if the kind of the value is one of the ki or some ki is 'any', and
\* otherwise exactly one error, with code 'typeof' and a message naming
\* k1|...|kn.
C18_SchemaObject ==
  (op = "typeErrors" /\ given.call = "schema") =>
    IF InSeq(typeOf(value), given.kinds) \/ InSeq("any", given.kinds)
    THEN errors = Undefined
    ELSE /\ errors.defined /\ Len(errors.errs) = 1
         /\ errors.errs[1].code = "typeof"
         /\ errors.errs[1].message =
              "must be of type " \o Join(given.kinds, "|") \o " but was " \o typeOf(value)

C18_Witness ==
  /\ op = "typeErrors" /\ given.call = "schema"
  /\ schema = [form |-> "object", type |-> <<"string", "number">>]
  /\ value = Arr(<<>>)
  /\ errors.defined
  /\ errors.errs[1].message = "must be of type string|number but was array"

\* the first arguments C19 names as missing or unusable
Unusable(ctor, arg) ==
  CASE ctor = "Enum" -> ~ (typeOf(arg) = "array" /\ Len(arg.items) > 0)
    [] ctor = "InstanceOf" -> typeOf(arg) \in {"null", "undefined"}
    [] ctor = "TypeOf" -> \/ typeOf(arg) \notin {"string", "array"}
                          \/ arg \in {Str(""), Arr(<<>>)}
    [] ctor = "Validate" -> typeOf(arg) # "function"
    [] ctor \in {"AllOf", "AnyOf"} -> ~ (typeOf(arg) = "array" /\ Len(arg.items) > 0)
    [] OTHER -> FALSE

\* C19: Enum, InstanceOf, TypeOf, Validate, AllOf and AnyOf raise at
\* construction, each with its own 'expects' message, when the first
\* argument is missing or unusable; no descriptor is returned then.
C19_ExpectsArgument ==
  (op \in {"raise", "build"} /\ Unusable(given.ctor, given.arg)) =>
    /\ op = "raise"
    /\ StartsWith(given.raised, given.ctor \o " expects ")
    /\ Len(given.returned) = 0

\* TypeOf('') raises, also with an options object that is itself rejected
C19_Witness ==
  /\ op = "raise" /\ given.ctor = "TypeOf" /\ given.arg = Str("")
  /\ given.options = Obj(<<"foo">>, <<Num("1")>>)
  /\ given.raised = "TypeOf expects a non-empty string or array as first argument"

\* the option keys of its own a constructor lists
OwnOptions(ctor) ==
  CASE ctor = "StringType" -> {"minLength", "maxLength", "pattern"}
    [] ctor = "NumberType" -> {"minimum", "maximum"}
    [] ctor \in {"ObjectType", "ExactObject", "ObjectOf"} ->
         {"required", "additionalProperties", "patternProperties"}
    [] ctor = "ArrayType" -> {"minItems", "maxItems"}
    [] OTHER -> {}

SharedOptions == {"name", "title", "description", "isRequired"}

\* C20: every public constructor raises at construction when its options
\* hold a key that is neither shared (name, title, description, isRequired)
\* nor one of its own constraints.
C20_UnrecognizedOption ==
  (op \in {"raise", "build"} /\ given.options # Undef
     /\ \E i \in 1..Len(given.options.keys) :
          given.options.keys[i] \notin SharedOptions \cup OwnOptions(given.ctor)) =>
    op = "raise"

Codes(errs) == [i \in 1..Len(errs) |-> errs[i].code]

\* C21: whenever typeErrors has been called with a StringType and a string,
\* it returned one error per violated constraint, in the order minLength,
\* maxLength, pattern (undefined when none is violated), for every
\* combination of the options, the bound 0 included; for a value that is
\* no string it returned exactly one error, with code 'typeof'.
C21_StringTypeCollectsAll ==
  (op = "typeErrors" /\ IsCtor(schema, "StringType")) =>
    IF value.t = "string" /\ value.cls = ""
    THEN LET options == schema.options
             length == Len(value.atom)
             violated ==
               (IF options.minLength >= 0 /\ length < options.minLength
                THEN <<"minLength">> ELSE <<>>)
               \o (IF options.maxLength >= 0 /\ length > options.maxLength
                   THEN <<"maxLength">> ELSE <<>>)
               \o (IF ~ RegExpMatch(value.atom, options.pattern)
                   THEN <<"pattern">> ELSE <<>>)
         IN /\ Codes(array(errors)) = violated
            /\ errors.defined <=> violated # <<>>
    ELSE /\ errors.defined
         /\ Codes(errors.errs) = <<"typeof">>

C21_Witness ==
  /\ op = "typeErrors" /\ IsCtor(schema, "StringType")
  /\ schema.options.minLength = 2 /\ schema.options.maxLength = 0
  /\ schema.options.pattern = "^a"
  /\ value = Str("b")
  /\ Codes(errors.errs) = <<"minLength", "maxLength", "pattern">>

\* C22: whenever typeErrors has been called with an ArrayType and an array,
\* it returned the errors of the elements, in index order, followed by a
\* 'minItems' error if the array is shorter than options.minItems and a
\* 'maxItems' error if it is longer than options.maxItems, for every bound
\* configured, 0 included; a length error has the path of the array.
C22_ArrayLengthErrors ==
  (op = "typeErrors" /\ IsCtor(schema, "ArrayType") /\ value.cls = "Array") =>
    LET options == schema.options
        length == Len(value.items)
        itemErrors ==
          flatten([i \in 1..length |->
                     array(typeErrors(heap, schema.items, value.items[i], <<IdxSeg(i - 1)>>))])
        lengthCodes ==
          (IF options.minItems >= 0 /\ length < options.minItems
           THEN <<"minItems">> ELSE <<>>)
          \o (IF options.maxItems >= 0 /\ length > options.maxItems
              THEN <<"maxItems">> ELSE <<>>)
        errs == array(errors)
    IN /\ Len(errs) = Len(itemErrors) + Len(lengthCodes)
       /\ SubSeq(errs, 1, Len(itemErrors)) = itemErrors
       /\ Codes(SubSeq(errs, Len(itemErrors) + 1, Len(errs))) = lengthCodes
       /\ \A i \in (Len(itemErrors) + 1)..Len(errs) : errs[i].path = <<>>

\* the kind C25 gives a value
KindOf(v) ==
  IF v.cls = "null" THEN "null"
  ELSE IF v.t = "undefined" THEN "undefined"
  ELSE IF v.cls = "Array" THEN "array"
  ELSE IF v.cls = "Date" THEN "date"
  ELSE IF v.cls = "Error" THEN "error"
  ELSE IF v.cls = "RegExp" THEN "regexp"
  ELSE IF v.t = "number" /\ v.atom = "NaN" THEN "NaN"
  ELSE v.t

WithoutOptions(type) ==
  /\ heap[type.ref].name = ""
  /\ heap[type.ref].additionalProperties = "undefined"
  /\ heap[type.ref].patternProperties = <<>>
  /\ heap[type.ref].required = <<>>

\* C28: whenever typeErrors has been called with an ObjectType built
\* without options and an object, every error it returned is about a
\* declared property the value has (no error for an absent declared key,
\* none for an undeclared key), and it returned undefined iff every
\* declared property the value has is valid under its type.
C28_WithoutOptions ==
  (op = "typeErrors" /\ IsCtor(schema, "ObjectType") /\ WithoutOptions(schema)
     /\ typeOf(value) = "object") =>
    LET properties == schema.properties
        present == SelectSeq(properties, LAMBDA p : HasKey(value, p.key))
    IN /\ \A i \in 1..Len(errors.errs) :
            \E j \in 1..Len(present) :
              /\ Len(errors.errs[i].path) > 0
              /\ errors.errs[i].path[1] = KeySeg(present[j].key)
       /\ errors = Undefined <=>
            \A j \in 1..Len(present) :
              isValid(heap, present[j].type, Prop(value, present[j].key))

\* C29: whenever typeErrors has been called with the descriptor NestedObject
\* made of a nested literal, it returned what typeErrors returns for the
\* descriptor written with explicit ObjectType and ArrayType calls: the
\* same errors (messages, codes, paths, values) in the same order.
C29_NestedObjectSugar ==
  (op = "typeErrors" /\ given.literal > 0) =>
    errors = typeErrors(heap, given.explicit[1], value, <<>>)

C29_Witness ==
  /\ op = "typeErrors" /\ given.literal = 3
  /\ value = Obj(<<"list">>, <<Arr(<<Obj(<<>>, <<>>), Obj(<<"baz">>, <<Num("1")>>)>>)>>)
  /\ Codes(errors.errs) = <<"required", "typeof">>
  /\ errors.errs[2].path = <<KeySeg("list"), IdxSeg(1), KeySeg("baz")>>

\* C24: whenever typeErrors has been called with a descriptor a constructor
\* returned and any value, it returned (undefined or an error sequence) and
\* threw nothing, whatever the pattern, the patternProperties keys and the
\* InstanceOf argument of the descriptor.
C24_ValidationNeverRaises ==
  (op \in {"typeErrors", "throw"}) => (op = "typeErrors" /\ given.raised = "")

\* the keys of a descriptor's properties that are marked required
OwnMarks(type) ==
  LET idx == SelectSeq([i \in 1..Len(type.properties) |-> i],
                       LAMBDA i : type.properties[i].type.options.isRequired = "true")
  IN [j \in 1..Len(idx) |-> type.properties[idx[j]].key]

\* C23: whenever assertType(d, v) has been called, it returned normally
\* exactly when typeErrors(d, v) is undefined; otherwise the one error it
\* raised has as childErrors the whole sequence typeErrors(d, v) returns and
\* a message that states the number of errors.
C23_AssertTypeAggregates ==
  (op = "assertType") =>
    LET _errors == typeErrors(heap, schema, value, <<>>)
        count == "value has invalid type - there are "
                   \o ToString(Len(_errors.errs)) \o " type errors"
    IN /\ ~ given.raised <=> ~ _errors.defined
       /\ given.raised =>
            /\ Len(given.error) = 1
            /\ given.error[1].childErrors = _errors
            /\ Len(given.error[1].message) >= Len(count)
            /\ SubSeq(given.error[1].message, 1, Len(count)) = count

C30_SharedOptionsDoNotInterfere ==
  (op = "typeErrors" /\ IsCtor(schema, "ObjectType")) =>
    LET frozen == [given.original EXCEPT !.required = unique(@ \o OwnMarks(schema))]
    IN /\ heap[schema.ref].required = frozen.required
       /\ errors = typeErrors(<<frozen>>, schema, value, <<>>)
       /\ heap[1] = given.original

\* C27: whenever typeErrors has been called on a descriptor, after any
\* number of earlier calls on it, the descriptor's options are as they were
\* built, the outcome is the outcome the same call has as the first call on
\* the descriptor, and no error object of the caller's routine carries a
\* path left by a call.
C27_ValidationLeavesNoState ==
  (op = "typeErrors") =>
    LET built == <<RetainedError, heap[2]>>
    IN /\ IsCtor(schema, "ObjectType") => heap[schema.ref].required = schema.required
       /\ errors = typeErrorsRetained(built, schema, value).errors

====
